---------------------------- MODULE Spec2Model ----------------------------
(***************************************************************************)
(* A model of ecmarkup's Spec class (src/src/Grammar.ts): the build()      *)
(* pipeline, the recursive DOM walk, and the replacement-algorithm step    *)
(* resolver setReplacementAlgorithmOffsets.                                *)
(*                                                                         *)
(* The specifications share the variables.  Each one drives one part of    *)
(* the program and leaves the variables of the other parts alone:          *)
(*   SpecRepl     setReplacementAlgorithmOffsets on the declarations that  *)
(*                the traversal collected (SpecReplLive: with fairness);   *)
(*   SpecBuild    the phases of build() with cooperative cancellation;     *)
(*   SpecWalk     walk() over a live tree that hooks may extend, and the   *)
(*                autolink pass over the text nodes it recorded;           *)
(*   SpecGraph    buildReferenceGraph;                                     *)
(*   SpecWarn     the diagnostics wrapper wrapWarn;                        *)
(*   SpecExport   the constructor's location and exportBiblio;             *)
(*   SpecGrammar  Grammar.enter on one emu-grammar element.                *)
(***************************************************************************)
EXTENDS Integers, Sequences, FiniteSets, TLC

(***************************************************************************)
(* Bounds of the model.                                                    *)
(***************************************************************************)
\* number of replacement algorithms (emu-alg[replaces-step]) in the document
MaxAlgs == 3
\* number of nodes of the document that build() is run on
MaxDoc == 3
\* number of nodes of the tree that walk() starts on, body included
MaxNodes == 4
\* number of nodes that enter hooks and emdTextNode splice in during one walk
MaxInserted == 1
\* number of references (_xrefs and _ntRefs together) buildReferenceGraph goes over
MaxRefs == 3
\* number of warnings handed to the wrapper that wrapWarn returns
MaxWarnings == 3
\* number of calls of exportBiblio on one Spec
MaxExports == 2
\* number of characters of the text that Grammar.enter reads
MaxSource == 5

VARIABLES
  \* ---- Spec fields read and written by setReplacementAlgorithmOffsets
  replacementAlgorithms,      \* Seq of [element, target], in document order
  replacementAlgorithmToContainedLabeledStepEntries, \* element -> Seq of step ids
  labeledStepsToBeRectified,  \* set of step ids
  biblio,                     \* id -> entry [type, stepNumbers]
  rootListStart,              \* element -> <<>> (no start attribute) or <<n>>
  rootListClass,              \* element -> set of class names of its root list
  warnings,                   \* Seq of the Warning objects handed to this.warn
  \* ---- locals of setReplacementAlgorithmOffsets
  pending,                    \* Map<string, Element[]>: target id -> Seq of elements
  rpc,                        \* "plain" | "walk" | "loop" | "done"
  ri,                         \* position of the for-of loop over replacementAlgorithms
  callStack,                  \* activations of setReplacementAlgorithmStart
  \* ---- history
  calls,                      \* every call of setReplacementAlgorithmStart, in order
  provisional,                \* step id -> the path its entry was created with
  \* ---- build(): the options, the token, the position in build()
  opts,                       \* [ecma262Biblio, lintSpec]
  cancellationRequested,      \* this.cancellationToken.cancellationRequested
  bpc,                        \* the phase build() is in, "returned" or "cancelled"
  begun,                      \* the phase has passed its entry and runs its body
  doc,                        \* the nodes of the document, in document order
  walked,                     \* nodes the walk has visited
  definedIds,                 \* ids of the entries in this.biblio
  externalBiblios,            \* external biblios added by loadBiblio
  xrefs, ntRefs, prodRefs,    \* _xrefs, _ntRefs, _prodRefs: positions of the nodes
  textSpans,                  \* _textNodes: positions of the recorded text nodes
  declarations,               \* replacementAlgorithms: positions of the emu-alg nodes
  offsetsSet,                 \* declarations setReplacementAlgorithmOffsets has handled
  autolinked,                 \* text nodes autolink() has processed
  linked,                     \* position of a reference -> what its build() found
  graphBuilt,                 \* buildReferenceGraph has run
  \* ---- history
  phaseLog,                   \* the phases whose body began, in order
  \* ---- walk(): the live tree, the TreeWalker, the Context
  nodeName,                   \* node -> nodeName; "#ws" is a text node of white space
  childNodes,                 \* node -> Seq of nodes, the live child list
  parentNode,                 \* node -> node, 0 above body
  attrs,                      \* node -> [id, oldids, namespace], <<>> for no attribute
  currentNode,                \* walker.currentNode
  context,                    \* the Context object handed through the walk
  activations,                \* the locals of the open calls of walk(), innermost last
  wpc,                        \* where the innermost call of walk() stands
  header,                     \* clause -> its header node, 0 for none
  textNodes,                  \* _textNodes: Seq of [namespace, nodes] in key order
  ai, aj,                     \* the loop indices i and j of autolink()
  rewritten,                  \* the text nodes handed to autolink(), in order
  \* ---- history
  visited,                    \* the nodes walk() was called on, in order
  inserted,                   \* the nodes inserted during the walk: [node, by]
  expanded,                   \* the text nodes handed to emdTextNode: [node, boundary]
  entryFlags,                 \* per open call on an element: the flags it was called with
  hookLog,                    \* the calls of enter and exit hooks: [hook, element, node]
  \* ---- buildReferenceGraph()
  _xrefs,                     \* Seq of [id, attr, entry, attr0]: Xref objects and their nodes
  _ntRefs,                    \* Seq of [attr, entry, inProduction, attr0]: NonTerminal objects
  otherIds,                   \* the ids of the other nodes of the document
  referencingIds,             \* entry -> Seq of ids: entry.referencingIds
  counter,                    \* the local counter
  gpc,                        \* "idle" | "xrefs" | "ntRefs" | "done"
  gi,                         \* position of the forEach under way
  \* ---- history
  generated,                  \* the ids made from counter: [list, index, id]
  \* ---- wrapWarn(): the closure variable and the sink
  source,                     \* the parameter `source` of wrapWarn, captured by the closure
  sink,                       \* the EcmarkupError objects handed to opts.warn, in order
  \* ---- history
  emitted,                    \* the Warning objects handed to this.warn, in order
  \* ---- the constructor's location handling and exportBiblio()
  optLocation,                \* the location property of the opts argument
  metaLocation,               \* the location property of the metadata block
  location,                   \* this.opts.location
  entries,                    \* the ids of the entries of this.biblio
  epc,                        \* "new" | "constructed"
  returned,                   \* the values exportBiblio returned, in order
  exportWarnings,             \* the Warning objects exportBiblio handed to this.warn
  \* ---- history of autolink()
  compiled,                   \* the namespaces handed to replacerForNamespace, in order
  linkedIn,                   \* the nodes that autolink() spliced into the document
  \* ---- Grammar.enter on one emu-grammar element
  gsource,                    \* location.source: the text the element was parsed from
  glocation,                  \* spec.locate(node): [kind, start, end], offsets from 0
  innerHTML,                  \* node.innerHTML
  grammarkdownOut,            \* node.grammarkdownOut: [has, out]
  mpc,                        \* "call" | "returned"
  converted,                  \* the contents handed to GrammarFile.convert, in order
  \* ---- history
  raw                         \* the text Grammar.enter read for the element

rvars == <<replacementAlgorithms, replacementAlgorithmToContainedLabeledStepEntries,
           labeledStepsToBeRectified, biblio, rootListStart, rootListClass,
           warnings, pending, rpc, ri, callStack, calls, provisional>>

bvars == <<opts, cancellationRequested, bpc, begun, doc, walked, definedIds,
           externalBiblios, xrefs, ntRefs, prodRefs, textSpans, declarations,
           offsetsSet, autolinked, linked, graphBuilt, phaseLog>>

wvars == <<nodeName, childNodes, parentNode, attrs, currentNode, context,
           activations, wpc, header, textNodes, ai, aj, rewritten, visited, inserted,
           expanded, entryFlags, hookLog>>

gvars == <<_xrefs, _ntRefs, otherIds, referencingIds, counter, gpc, gi, generated>>

dvars == <<source, sink, emitted>>

evars == <<optLocation, metaLocation, location, entries, epc, returned, exportWarnings>>

lvars == <<compiled, linkedIn>>

mvars == <<gsource, glocation, innerHTML, grammarkdownOut, mpc, converted, raw>>

\* the variables of the parts outside build() and the history of autolink()
xvars == <<dvars, evars, lvars, mvars>>

vars == <<rvars, bvars, wvars, gvars, xvars>>

\* the Context that build() creates before the walk (lines 440-452)
InitialContext ==
  [node |-> 1, tagStack |-> <<>>, clauseStack |-> <<>>, inNoAutolink |-> FALSE,
   inAlg |-> FALSE, inNoEmd |-> FALSE, startEmd |-> 0, currentId |-> <<>>]

\* the values of the walk variables while another part of the program is examined
WalkIdle ==
  /\ nodeName = <<"BODY">>
  /\ childNodes = << <<>> >>
  /\ parentNode = <<0>>
  /\ attrs = <<[id |-> <<>>, oldids |-> <<>>, namespace |-> <<>>]>>
  /\ currentNode = 1
  /\ context = InitialContext
  /\ activations = <<>>
  /\ wpc = "idle"
  /\ header = <<0>>
  /\ textNodes = <<>>
  /\ ai = 1 /\ aj = 1
  /\ rewritten = <<>>
  /\ visited = <<>>
  /\ inserted = {}
  /\ expanded = <<>>
  /\ entryFlags = <<>>
  /\ hookLog = <<>>

\* the values of the reference-graph variables while another part is examined
GraphIdle ==
  /\ _xrefs = <<>>
  /\ _ntRefs = <<>>
  /\ otherIds = {}
  /\ referencingIds = <<>>
  /\ counter = 0
  /\ gpc = "idle"
  /\ gi = 1
  /\ generated = <<>>

\* the text of the root document, this.sourceText, and the text of an import
sourceText == "spec.html: text"

importSource == "import.html: text"

\* the values of the wrapper's variables while another part is examined
WarnIdle ==
  /\ source = sourceText
  /\ sink = <<>>
  /\ emitted = <<>>

\* the values of the location variables while another part is examined
ExportIdle ==
  /\ optLocation = "absent"
  /\ metaLocation = "absent"
  /\ location = "absent"
  /\ entries = {}
  /\ epc = "idle"
  /\ returned = <<>>
  /\ exportWarnings = <<>>

\* autolink() has not begun
AutolinkIdle ==
  /\ compiled = <<>>
  /\ linkedIn = {}

\* the values of the variables of Grammar.enter while another part is examined
GrammarIdle ==
  /\ gsource = <<>>
  /\ glocation = [kind |-> "none", start |-> 0, end |-> 0]
  /\ innerHTML = <<>>
  /\ grammarkdownOut = [has |-> FALSE, out |-> <<>>]
  /\ mpc = "idle"
  /\ converted = <<>>
  /\ raw = <<>>

\* the values of the variables of the parts outside build()
ExtraIdle == WarnIdle /\ ExportIdle /\ AutolinkIdle /\ GrammarIdle

Last(s) == s[Len(s)]

Range(s) == {s[i] : i \in DOMAIN s}

(***************************************************************************)
(* The document the resolver runs on.  Elements are numbered 1..MaxAlgs in *)
(* document order.  Ids are pairs: <<0, k>> for entries that do not belong *)
(* to a replacement algorithm, <<a, k>> for the k-th labeled step of       *)
(* replacement algorithm a.                                                *)
(***************************************************************************)
Elements == 1..MaxAlgs

\* labeled steps of the document's ordinary (non-replacement) algorithm
S1 == <<0, 1>>        \* path [2,1]
S3 == <<0, 2>>        \* path [3]
S5 == <<0, 3>>        \* path [1,2,1,1,2]
C1Id == <<0, 4>>      \* id of a clause
MissingId == <<0, 5>> \* id that nothing in the document carries

PlainSteps == (S1 :> <<2, 1>>) @@ (S3 :> <<3>>) @@ (S5 :> <<1, 2, 1, 1, 2>>)

\* the labeled steps a replacement algorithm may hold, as local paths
\* (getStepNumbers: 1-based positions in the nested lists)
ShapeNone == <<>>
ShapeTop == << <<1>>, <<2>> >>
ShapeNested == << <<1>>, <<1, 2>> >>
Shapes == {ShapeNone, ShapeTop, ShapeNested}

StepId(a, k) == <<a, k>>

TargetIds == DOMAIN PlainSteps \cup {C1Id, MissingId}
               \cup {StepId(a, k) : a \in Elements, k \in 1..2}

(***************************************************************************)
(* Biblio.byId: the entry with that id, or null.                           *)
(***************************************************************************)
HasEntry(id) == id \in DOMAIN biblio

byId(id) == biblio[id]

(***************************************************************************)
(* The state after the constructor: empty lists, an empty Biblio.          *)
(***************************************************************************)
ReplInitState ==
  /\ replacementAlgorithms = <<>>
  /\ replacementAlgorithmToContainedLabeledStepEntries = <<>>
  /\ labeledStepsToBeRectified = {}
  /\ biblio = <<>>
  /\ rootListStart = [e \in Elements |-> <<>>]
  /\ rootListClass = [e \in Elements |-> {}]
  /\ warnings = <<>>
  /\ pending = <<>>
  /\ rpc = "plain"
  /\ ri = 1
  /\ callStack = <<>>
  /\ calls = <<>>
  /\ provisional = <<>>

(***************************************************************************)
(* Traversal, as far as the resolver depends on it: the builders register  *)
(* the clause, the labeled steps of the ordinary algorithm, and then each  *)
(* replacement algorithm with its labeled steps.                           *)
(***************************************************************************)
StepEntry(path) == [type |-> "step", stepNumbers |-> path]

\* Clause and Algorithm builders on the elements that declare no replacement
PlainEnter ==
  /\ rpc = "plain"
  /\ biblio' = [id \in DOMAIN PlainSteps |-> StepEntry(PlainSteps[id])]
                 @@ (C1Id :> [type |-> "clause", stepNumbers |-> <<>>])
  /\ provisional' = PlainSteps
  /\ rpc' = "walk"
  /\ UNCHANGED <<replacementAlgorithms, replacementAlgorithmToContainedLabeledStepEntries,
                 labeledStepsToBeRectified, rootListStart, rootListClass, warnings,
                 pending, ri, callStack, calls>>

\* Algorithm builder on emu-alg[replaces-step=target] holding the labeled steps `shape`
ReplacementAlgorithmEnter(shape, target) ==
  /\ rpc = "walk"
  /\ Len(replacementAlgorithms) < MaxAlgs
  /\ LET element == Len(replacementAlgorithms) + 1
         ids == [k \in DOMAIN shape |-> StepId(element, k)]
         added == [id \in Range(ids) |-> shape[id[2]]]
     IN /\ replacementAlgorithms' =
             Append(replacementAlgorithms, [element |-> element, target |-> target])
        /\ replacementAlgorithmToContainedLabeledStepEntries' =
             replacementAlgorithmToContainedLabeledStepEntries @@ (element :> ids)
        /\ biblio' = biblio @@ [id \in Range(ids) |-> StepEntry(added[id])]
        /\ provisional' = provisional @@ added
        /\ labeledStepsToBeRectified' = labeledStepsToBeRectified \cup Range(ids)
  /\ UNCHANGED <<rootListStart, rootListClass, warnings, pending, rpc, ri, callStack, calls>>

\* the walk is over: build() goes on to setReplacementAlgorithmOffsets
WalkFinished ==
  /\ rpc = "walk"
  /\ Len(replacementAlgorithms) = MaxAlgs
  /\ rpc' = "loop"
  /\ UNCHANGED <<replacementAlgorithms, replacementAlgorithmToContainedLabeledStepEntries,
                 labeledStepsToBeRectified, biblio, rootListStart, rootListClass,
                 warnings, pending, ri, callStack, calls, provisional>>

(***************************************************************************)
(* setReplacementAlgorithmStart, the head of the closure: the start index  *)
(* and the nesting class of the root list.                                 *)
(***************************************************************************)
\* mutant: the case for a path of length 5 is missing
NestingClass_NoFourTimes(stepNumbers) ==
  IF Len(stepNumbers) > 1
  THEN IF Len(stepNumbers) = 2 THEN {"nested-once"}
       ELSE IF Len(stepNumbers) = 3 THEN {"nested-twice"}
       ELSE IF Len(stepNumbers) = 4 THEN {"nested-thrice"}
       ELSE {"nested-lots"}
  ELSE {}

NestingClass(stepNumbers) ==
  IF Len(stepNumbers) > 1
  THEN IF Len(stepNumbers) = 2 THEN {"nested-once"}
       ELSE IF Len(stepNumbers) = 3 THEN {"nested-twice"}
       ELSE IF Len(stepNumbers) = 4 THEN {"nested-thrice"}
       ELSE IF Len(stepNumbers) = 5 THEN {"nested-four-times"}
       ELSE {"nested-lots"}
  ELSE {}

\* mutant: the first element of the path instead of the last
StartIndex_First(stepNumbers) == Head(stepNumbers)

StartIndex(stepNumbers) == Last(stepNumbers)

\* mutant: the local path is appended whole (no slice(1))
RectifiedPath_KeepFirst(stepNumbers, local) == stepNumbers \o local

\* entry.stepNumbers = [...stepNumbers, ...entry.stepNumbers.slice(1)]
RectifiedPath(stepNumbers, local) == stepNumbers \o Tail(local)

Frame(element, stepNumbers) ==
  [element |-> element, stepNumbers |-> stepNumbers, k |-> 1, todo |-> <<>>]

\* the call: everything before the for-of loop over the contained entries
setReplacementAlgorithmStart(element, stepNumbers, below) ==
  /\ rootListStart' = [rootListStart EXCEPT ![element] = <<StartIndex(stepNumbers)>>]
  /\ rootListClass' = [rootListClass EXCEPT ![element] = @ \cup NestingClass(stepNumbers)]
  /\ callStack' = Append(below, Frame(element, stepNumbers))
  /\ calls' = Append(calls, [element |-> element, stepNumbers |-> stepNumbers])

Top == callStack[Len(callStack)]

Below == SubSeq(callStack, 1, Len(callStack) - 1)

TopEntries == replacementAlgorithmToContainedLabeledStepEntries[Top.element]

\* mutant: pending.delete(entry.id) is missing
RectifyEntry_KeepsPending ==
  /\ rpc = "loop"
  /\ callStack # <<>>
  /\ Top.todo = <<>>
  /\ Top.k <= Len(TopEntries)
  /\ LET id == TopEntries[Top.k]
         waiting == id \in DOMAIN pending
     IN /\ biblio' = [biblio EXCEPT ![id].stepNumbers = RectifiedPath(Top.stepNumbers, @)]
        /\ labeledStepsToBeRectified' = labeledStepsToBeRectified \ {id}
        /\ pending' = pending
        /\ callStack' = Append(Below, [Top EXCEPT !.k = @ + 1,
                                                  !.todo = IF waiting THEN pending[id] ELSE <<>>])
  /\ UNCHANGED <<replacementAlgorithms, replacementAlgorithmToContainedLabeledStepEntries,
                 rootListStart, rootListClass, warnings, rpc, ri, calls, provisional>>

\* one iteration of the for-of loop over the contained entries, up to the
\* reactivation loop: fix the path, strike the id, take over what waited on it
RectifyEntry ==
  /\ rpc = "loop"
  /\ callStack # <<>>
  /\ Top.todo = <<>>
  /\ Top.k <= Len(TopEntries)
  /\ LET id == TopEntries[Top.k]
         waiting == id \in DOMAIN pending
     IN /\ biblio' = [biblio EXCEPT ![id].stepNumbers = RectifiedPath(Top.stepNumbers, @)]
        /\ labeledStepsToBeRectified' = labeledStepsToBeRectified \ {id}
        /\ pending' = [t \in DOMAIN pending \ {id} |-> pending[t]]
        /\ callStack' = Append(Below, [Top EXCEPT !.k = @ + 1,
                                                  !.todo = IF waiting THEN pending[id] ELSE <<>>])
  /\ UNCHANGED <<replacementAlgorithms, replacementAlgorithmToContainedLabeledStepEntries,
                 rootListStart, rootListClass, warnings, rpc, ri, calls, provisional>>

\* mutant: the call is made with the path the entry was created with
Reactivate_Provisional ==
  /\ rpc = "loop"
  /\ callStack # <<>>
  /\ Top.todo # <<>>
  /\ LET entryId == TopEntries[Top.k - 1]
     IN setReplacementAlgorithmStart(Head(Top.todo), provisional[entryId],
                                     Append(Below, [Top EXCEPT !.todo = Tail(@)]))
  /\ UNCHANGED <<replacementAlgorithms, replacementAlgorithmToContainedLabeledStepEntries,
                 labeledStepsToBeRectified, biblio, warnings, pending, rpc, ri, provisional>>

\* one iteration of `for (let replacementAlgorithm of todo)`: the recursive call
Reactivate ==
  /\ rpc = "loop"
  /\ callStack # <<>>
  /\ Top.todo # <<>>
  /\ LET entryId == TopEntries[Top.k - 1]
     IN setReplacementAlgorithmStart(Head(Top.todo), byId(entryId).stepNumbers,
                                     Append(Below, [Top EXCEPT !.todo = Tail(@)]))
  /\ UNCHANGED <<replacementAlgorithms, replacementAlgorithmToContainedLabeledStepEntries,
                 labeledStepsToBeRectified, biblio, warnings, pending, rpc, ri, provisional>>

\* the for-of loop over the contained entries is exhausted: the call returns
Return ==
  /\ rpc = "loop"
  /\ callStack # <<>>
  /\ Top.todo = <<>>
  /\ Top.k > Len(TopEntries)
  /\ callStack' = Below
  /\ UNCHANGED <<replacementAlgorithms, replacementAlgorithmToContainedLabeledStepEntries,
                 labeledStepsToBeRectified, biblio, rootListStart, rootListClass,
                 warnings, pending, rpc, ri, calls, provisional>>

(***************************************************************************)
(* setReplacementAlgorithmOffsets: the loop over the declarations.         *)
(***************************************************************************)
\* mutant: the loop stops short of the last declaration
AtDeclaration_SkipsLast ==
  /\ rpc = "loop"
  /\ callStack = <<>>
  /\ ri < Len(replacementAlgorithms)

AtDeclaration ==
  /\ rpc = "loop"
  /\ callStack = <<>>
  /\ ri <= Len(replacementAlgorithms)

Decl == replacementAlgorithms[ri]

AttrWarning(element, message) ==
  [type |-> "attr", attr |-> "replaces-step", ruleId |-> "invalid-replacement",
   message |-> message, node |-> element]

GlobalWarning ==
  [type |-> "global", attr |-> "", ruleId |-> "invalid-replacement",
   message |-> "could not unambiguously determine replacement algorithm offsets",
   node |-> 0]

\* mutant: pending.set(target, [element]) whether or not the target is waited on
Defer_Overwrite ==
  /\ AtDeclaration
  /\ Decl.target \in labeledStepsToBeRectified
  /\ pending' = IF Decl.target \in DOMAIN pending
                THEN [pending EXCEPT ![Decl.target] = <<Decl.element>>]
                ELSE pending @@ (Decl.target :> <<Decl.element>>)
  /\ ri' = ri + 1
  /\ UNCHANGED <<replacementAlgorithms, replacementAlgorithmToContainedLabeledStepEntries,
                 labeledStepsToBeRectified, biblio, rootListStart, rootListClass,
                 warnings, rpc, callStack, calls, provisional>>

\* the target is a labeled step of a replacement algorithm not rectified yet
Defer ==
  /\ AtDeclaration
  /\ Decl.target \in labeledStepsToBeRectified
  /\ pending' = IF Decl.target \in DOMAIN pending
                THEN [pending EXCEPT ![Decl.target] = Append(@, Decl.element)]
                ELSE pending @@ (Decl.target :> <<Decl.element>>)
  /\ ri' = ri + 1
  /\ UNCHANGED <<replacementAlgorithms, replacementAlgorithmToContainedLabeledStepEntries,
                 labeledStepsToBeRectified, biblio, rootListStart, rootListClass,
                 warnings, rpc, callStack, calls, provisional>>

\* mutant: a missing target ends the loop, as a throw would
WarnMissing_Throws ==
  /\ AtDeclaration
  /\ Decl.target \notin labeledStepsToBeRectified
  /\ ~HasEntry(Decl.target)
  /\ warnings' = Append(warnings, AttrWarning(Decl.element, "could not find step"))
  /\ rpc' = "done"
  /\ UNCHANGED <<replacementAlgorithms, replacementAlgorithmToContainedLabeledStepEntries,
                 labeledStepsToBeRectified, biblio, rootListStart, rootListClass,
                 pending, ri, callStack, calls, provisional>>

\* targetEntry == null
WarnMissing ==
  /\ AtDeclaration
  /\ Decl.target \notin labeledStepsToBeRectified
  /\ ~HasEntry(Decl.target)
  /\ warnings' = Append(warnings, AttrWarning(Decl.element, "could not find step"))
  /\ ri' = ri + 1
  /\ UNCHANGED <<replacementAlgorithms, replacementAlgorithmToContainedLabeledStepEntries,
                 labeledStepsToBeRectified, biblio, rootListStart, rootListClass,
                 pending, rpc, callStack, calls, provisional>>

\* targetEntry.type !== 'step'
WarnNotStep ==
  /\ AtDeclaration
  /\ Decl.target \notin labeledStepsToBeRectified
  /\ HasEntry(Decl.target)
  /\ byId(Decl.target).type # "step"
  /\ warnings' = Append(warnings, AttrWarning(Decl.element, "expected algorithm to replace a step"))
  /\ ri' = ri + 1
  /\ UNCHANGED <<replacementAlgorithms, replacementAlgorithmToContainedLabeledStepEntries,
                 labeledStepsToBeRectified, biblio, rootListStart, rootListClass,
                 pending, rpc, callStack, calls, provisional>>

\* the target's path is final: setReplacementAlgorithmStart(element, targetEntry.stepNumbers)
Resolve ==
  /\ AtDeclaration
  /\ Decl.target \notin labeledStepsToBeRectified
  /\ HasEntry(Decl.target)
  /\ byId(Decl.target).type = "step"
  /\ setReplacementAlgorithmStart(Decl.element, byId(Decl.target).stepNumbers, <<>>)
  /\ ri' = ri + 1
  /\ UNCHANGED <<replacementAlgorithms, replacementAlgorithmToContainedLabeledStepEntries,
                 labeledStepsToBeRectified, biblio, warnings, pending, rpc, provisional>>

\* mutant: one global diagnostic for every target that is still waited on
PendingWarnings_PerTarget == [i \in 1..Cardinality(DOMAIN pending) |-> GlobalWarning]

\* after the loop: if (pending.size > 0) warn once
PendingWarnings == IF DOMAIN pending # {} THEN <<GlobalWarning>> ELSE <<>>

Finish ==
  /\ rpc = "loop"
  /\ callStack = <<>>
  /\ ri > Len(replacementAlgorithms)
  /\ warnings' = warnings \o PendingWarnings
  /\ rpc' = "done"
  /\ UNCHANGED <<replacementAlgorithms, replacementAlgorithmToContainedLabeledStepEntries,
                 labeledStepsToBeRectified, biblio, rootListStart, rootListClass,
                 pending, ri, callStack, calls, provisional>>

(***************************************************************************)
(* build().  The document is a sequence of nodes in document order; what   *)
(* matters of a node is which builder handles it.  All definitions define  *)
(* the id TargetId and all references refer to it.                         *)
(***************************************************************************)
TargetId == "sec-target"

NoEntry == "(none)"

NodeKinds == {"def", "emu-xref", "emu-nt", "emu-prodref", "text", "emu-alg", "emu-grammar"}

Documents == [1..MaxDoc -> NodeKinds]

\* mutant: the reference lists are linked before autolink() runs
BuildOrder_ReferencesFirst ==
  <<"ecma262Biblio", "biblios", "imports", "boilerplate", "lint", "walk",
    "replacement", "xrefs", "ntRefs", "prodRefs", "autolink", "referenceGraph",
    "assets">>

\* the statements of build(), in program order
BuildOrder ==
  <<"ecma262Biblio", "biblios", "imports", "boilerplate", "lint", "walk",
    "replacement", "autolink", "xrefs", "ntRefs", "prodRefs", "referenceGraph",
    "assets">>

\* the statements build() skips: if (this.opts.ecma262Biblio), if (this.opts.lintSpec)
Skipped(p) ==
  \/ p = "ecma262Biblio" /\ ~opts.ecma262Biblio
  \/ p = "lint" /\ ~opts.lintSpec

IndexOf(seq, x) == CHOOSE i \in DOMAIN seq : seq[i] = x

RECURSIVE PhaseFrom(_)
PhaseFrom(i) ==
  IF i > Len(BuildOrder) THEN "returned"
  ELSE IF Skipped(BuildOrder[i]) THEN PhaseFrom(i + 1)
  ELSE BuildOrder[i]

NextPhase(p) == PhaseFrom(IndexOf(BuildOrder, p) + 1)

\* mutant: buildBoilerplate does not look at the token
ChecksCancellation_NoBoilerplate == {"ecma262Biblio", "biblios"}

\* the methods that begin with this.cancellationToken.throwIfCancellationRequested()
ChecksCancellation == {"ecma262Biblio", "biblios", "boilerplate"}

\* the values of the build variables while another part of the program is examined
BuildIdle ==
  /\ opts = [ecma262Biblio |-> TRUE, lintSpec |-> FALSE]
  /\ cancellationRequested = FALSE
  /\ bpc = "idle"
  /\ begun = FALSE
  /\ doc = <<>>
  /\ walked = 0
  /\ definedIds = {}
  /\ externalBiblios = 0
  /\ xrefs = <<>> /\ ntRefs = <<>> /\ prodRefs = <<>>
  /\ textSpans = <<>>
  /\ declarations = <<>>
  /\ offsetsSet = 0
  /\ autolinked = <<>>
  /\ linked = <<>>
  /\ graphBuilt = FALSE
  /\ phaseLog = <<>>

\* after the constructor, build() about to run its first statement
BuildInitState ==
  /\ opts \in [ecma262Biblio : BOOLEAN, lintSpec : BOOLEAN]
  /\ cancellationRequested = FALSE
  /\ doc \in Documents
  /\ bpc = PhaseFrom(1)
  /\ begun = FALSE
  /\ walked = 0
  /\ definedIds = {}
  /\ externalBiblios = 0
  /\ xrefs = <<>> /\ ntRefs = <<>> /\ prodRefs = <<>>
  /\ textSpans = <<>>
  /\ declarations = <<>>
  /\ offsetsSet = 0
  /\ autolinked = <<>>
  /\ linked = <<>>
  /\ graphBuilt = FALSE
  /\ phaseLog = <<>>

Running(p) == bpc = p /\ begun

\* the body of phase p is over: build() moves to its next statement
Leave(p) ==
  /\ bpc' = NextPhase(p)
  /\ begun' = FALSE

\* the token is cancelled by its owner, before build() or whenever other code
\* gets to run (an await, the log and warn callbacks)
RequestCancellation ==
  /\ bpc \notin {"idle", "returned", "cancelled"}
  /\ ~cancellationRequested
  /\ cancellationRequested' = TRUE
  /\ UNCHANGED <<opts, bpc, begun, doc, walked, definedIds, externalBiblios, xrefs,
                 ntRefs, prodRefs, textSpans, declarations, offsetsSet, autolinked,
                 linked, graphBuilt, phaseLog>>

\* the entry of the method that runs phase p: throwIfCancellationRequested()
\* where the method has it, then the body begins
Enter(p) ==
  /\ bpc = p
  /\ ~begun
  /\ IF p \in ChecksCancellation /\ cancellationRequested
     THEN /\ bpc' = "cancelled"
          /\ UNCHANGED <<begun, phaseLog>>
     ELSE /\ begun' = TRUE
          /\ phaseLog' = Append(phaseLog, p)
          /\ UNCHANGED bpc
  /\ UNCHANGED <<opts, cancellationRequested, doc, walked, definedIds, externalBiblios,
                 xrefs, ntRefs, prodRefs, textSpans, declarations, offsetsSet,
                 autolinked, linked, graphBuilt>>

\* loadBiblio: await this.fetch(file), then addExternalBiblio
LoadBiblio(p) ==
  /\ p \in {"ecma262Biblio", "biblios"}
  /\ Running(p)
  /\ externalBiblios' = externalBiblios + 1
  /\ Leave(p)
  /\ UNCHANGED <<opts, cancellationRequested, doc, walked, definedIds, xrefs, ntRefs,
                 prodRefs, textSpans, declarations, offsetsSet, autolinked, linked,
                 graphBuilt, phaseLog>>

\* a collaborator that was handed the token (fetch, GrammarFile.convert) rejects
CollaboratorCancels(p) ==
  /\ p \in {"ecma262Biblio", "biblios"} \/ (p = "walk" /\ walked < Len(doc)
                                             /\ doc[walked + 1] = "emu-grammar")
  /\ Running(p)
  /\ cancellationRequested
  /\ bpc' = "cancelled"
  /\ UNCHANGED <<opts, cancellationRequested, begun, doc, walked, definedIds,
                 externalBiblios, xrefs, ntRefs, prodRefs, textSpans, declarations,
                 offsetsSet, autolinked, linked, graphBuilt, phaseLog>>

\* loadImports, buildBoilerplate, lint, and the statements after buildReferenceGraph
\* (highlightCode ... buildAssets): nothing in them that the statements here read
PlainPhase(p) ==
  /\ p \in {"imports", "boilerplate", "lint", "assets"}
  /\ Running(p)
  /\ Leave(p)
  /\ UNCHANGED <<opts, cancellationRequested, doc, walked, definedIds, externalBiblios,
                 xrefs, ntRefs, prodRefs, textSpans, declarations, offsetsSet,
                 autolinked, linked, graphBuilt, phaseLog>>

\* walk: the next node in document order is visited and its builder entered
WalkNode ==
  /\ Running("walk")
  /\ walked < Len(doc)
  /\ walked' = walked + 1
  /\ LET pos == walked + 1
         kind == doc[pos]
     IN /\ definedIds' = IF kind = "def" THEN definedIds \cup {TargetId} ELSE definedIds
        /\ xrefs' = IF kind = "emu-xref" THEN Append(xrefs, pos) ELSE xrefs
        /\ ntRefs' = IF kind = "emu-nt" THEN Append(ntRefs, pos) ELSE ntRefs
        /\ prodRefs' = IF kind = "emu-prodref" THEN Append(prodRefs, pos) ELSE prodRefs
        /\ textSpans' = IF kind = "text" THEN Append(textSpans, pos) ELSE textSpans
        /\ declarations' = IF kind = "emu-alg" THEN Append(declarations, pos) ELSE declarations
  /\ UNCHANGED <<opts, cancellationRequested, bpc, begun, doc, externalBiblios,
                 offsetsSet, autolinked, linked, graphBuilt, phaseLog>>

\* await walk(walker, context) returns
WalkReturns ==
  /\ Running("walk")
  /\ walked = Len(doc)
  /\ Leave("walk")
  /\ UNCHANGED <<opts, cancellationRequested, doc, walked, definedIds, externalBiblios,
                 xrefs, ntRefs, prodRefs, textSpans, declarations, offsetsSet,
                 autolinked, linked, graphBuilt, phaseLog>>

\* setReplacementAlgorithmOffsets: one declaration of the for-of loop
OffsetsStep ==
  /\ Running("replacement")
  /\ offsetsSet < Len(declarations)
  /\ offsetsSet' = offsetsSet + 1
  /\ UNCHANGED <<opts, cancellationRequested, bpc, begun, doc, walked, definedIds,
                 externalBiblios, xrefs, ntRefs, prodRefs, textSpans, declarations,
                 autolinked, linked, graphBuilt, phaseLog>>

OffsetsReturns ==
  /\ Running("replacement")
  /\ offsetsSet = Len(declarations)
  /\ Leave("replacement")
  /\ UNCHANGED <<opts, cancellationRequested, doc, walked, definedIds, externalBiblios,
                 xrefs, ntRefs, prodRefs, textSpans, declarations, offsetsSet,
                 autolinked, linked, graphBuilt, phaseLog>>

\* autolink(): one recorded text node
AutolinkStep ==
  /\ Running("autolink")
  /\ Len(autolinked) < Len(textSpans)
  /\ autolinked' = Append(autolinked, textSpans[Len(autolinked) + 1])
  /\ UNCHANGED <<opts, cancellationRequested, bpc, begun, doc, walked, definedIds,
                 externalBiblios, xrefs, ntRefs, prodRefs, textSpans, declarations,
                 offsetsSet, linked, graphBuilt, phaseLog>>

AutolinkReturns ==
  /\ Running("autolink")
  /\ Len(autolinked) = Len(textSpans)
  /\ Leave("autolink")
  /\ UNCHANGED <<opts, cancellationRequested, doc, walked, definedIds, externalBiblios,
                 xrefs, ntRefs, prodRefs, textSpans, declarations, offsetsSet,
                 autolinked, linked, graphBuilt, phaseLog>>

\* Bibliography lookup by id: the entry, if there is one by now
Lookup(id) == IF id \in definedIds THEN id ELSE NoEntry

RefList(p) == IF p = "xrefs" THEN xrefs ELSE IF p = "ntRefs" THEN ntRefs ELSE prodRefs

Unlinked(p) == {i \in DOMAIN RefList(p) : RefList(p)[i] \notin DOMAIN linked}

\* mutant: a cross-reference is built as soon as the walk has collected it
LinkingReached_DuringWalk(p) == Running(p) \/ (p = "xrefs" /\ Running("walk"))

\* the reference lists are linked once the walk has returned and autolink has run:
\* this._xrefs.forEach(xref => xref.build()), and so for _ntRefs and _prodRefs
LinkingReached(p) == Running(p)

\* one iteration of the forEach: build() of the next reference of the list
LinkReference(p) ==
  /\ p \in {"xrefs", "ntRefs", "prodRefs"}
  /\ LinkingReached(p)
  /\ Unlinked(p) # {}
  /\ LET i == CHOOSE i \in Unlinked(p) : \A j \in Unlinked(p) : i <= j
     IN linked' = linked @@ (RefList(p)[i] :> [entry |-> Lookup(TargetId), walked |-> walked])
  /\ UNCHANGED <<opts, cancellationRequested, bpc, begun, doc, walked, definedIds,
                 externalBiblios, xrefs, ntRefs, prodRefs, textSpans, declarations,
                 offsetsSet, autolinked, graphBuilt, phaseLog>>

LinkingReturns(p) ==
  /\ p \in {"xrefs", "ntRefs", "prodRefs"}
  /\ Running(p)
  /\ Unlinked(p) = {}
  /\ Leave(p)
  /\ UNCHANGED <<opts, cancellationRequested, doc, walked, definedIds, externalBiblios,
                 xrefs, ntRefs, prodRefs, textSpans, declarations, offsetsSet,
                 autolinked, linked, graphBuilt, phaseLog>>

BuildReferenceGraph ==
  /\ Running("referenceGraph")
  /\ graphBuilt' = TRUE
  /\ Leave("referenceGraph")
  /\ UNCHANGED <<opts, cancellationRequested, doc, walked, definedIds, externalBiblios,
                 xrefs, ntRefs, prodRefs, textSpans, declarations, offsetsSet,
                 autolinked, linked, phaseLog>>

Phases == Range(BuildOrder)

BuildNext ==
  \/ RequestCancellation /\ UNCHANGED <<rvars, wvars, gvars, xvars>>
  \/ \E p \in Phases : Enter(p) /\ UNCHANGED <<rvars, wvars, gvars, xvars>>
  \/ \E p \in Phases : LoadBiblio(p) /\ UNCHANGED <<rvars, wvars, gvars, xvars>>
  \/ \E p \in Phases : CollaboratorCancels(p) /\ UNCHANGED <<rvars, wvars, gvars, xvars>>
  \/ \E p \in Phases : PlainPhase(p) /\ UNCHANGED <<rvars, wvars, gvars, xvars>>
  \/ WalkNode /\ UNCHANGED <<rvars, wvars, gvars, xvars>>
  \/ WalkReturns /\ UNCHANGED <<rvars, wvars, gvars, xvars>>
  \/ OffsetsStep /\ UNCHANGED <<rvars, wvars, gvars, xvars>>
  \/ OffsetsReturns /\ UNCHANGED <<rvars, wvars, gvars, xvars>>
  \/ AutolinkStep /\ UNCHANGED <<rvars, wvars, gvars, xvars>>
  \/ AutolinkReturns /\ UNCHANGED <<rvars, wvars, gvars, xvars>>
  \/ \E p \in Phases : LinkReference(p) /\ UNCHANGED <<rvars, wvars, gvars, xvars>>
  \/ \E p \in Phases : LinkingReturns(p) /\ UNCHANGED <<rvars, wvars, gvars, xvars>>
  \/ BuildReferenceGraph /\ UNCHANGED <<rvars, wvars, gvars, xvars>>

BuildInit == BuildInitState /\ ReplInitState /\ WalkIdle /\ GraphIdle /\ ExtraIdle

SpecBuild == BuildInit /\ [][BuildNext]_vars

(***************************************************************************)
(* Vocabulary of the statements about build().                              *)
(***************************************************************************)
Began(p) == p \in Range(phaseLog)

WalkComplete == Began("walk") /\ walked = Len(doc) /\ ~Running("walk")

Defines(d) == \E i \in DOMAIN d : d[i] = "def"

\* the post-traversal passes in the order of build(): resolver, autolinker, references
PassesInOrder ==
  <<"replacement", "autolink", "xrefs", "ntRefs", "prodRefs", "referenceGraph">>

RECURSIVE Restrict(_, _)
Restrict(seq, S) ==
  IF seq = <<>> THEN <<>>
  ELSE IF Head(seq) \in S THEN <<Head(seq)>> \o Restrict(Tail(seq), S)
  ELSE Restrict(Tail(seq), S)

IsPrefix(a, b) == Len(a) <= Len(b) /\ a = SubSeq(b, 1, Len(a))

AllLinked == \A p \in {"xrefs", "ntRefs", "prodRefs"} : Began(p) /\ ~Running(p) /\ Unlinked(p) = {}

(***************************************************************************)
(* C6.  No reference (cross-reference, non-terminal reference, production  *)
(* reference) is built before the walk has visited the whole document; so  *)
(* a reference finds the entry if the document defines it anywhere, before *)
(* or after the reference.                                                 *)
(***************************************************************************)
C6_ReferencesLinkedAfterWalk ==
  \A pos \in DOMAIN linked :
    /\ linked[pos].walked = Len(doc)
    /\ linked[pos].entry = (IF Defines(doc) THEN TargetId ELSE NoEntry)

\* a reference before the definition and one after it, both linked to the entry
C6_Witness ==
  /\ bpc = "returned"
  /\ doc[1] = "emu-xref" /\ doc[2] = "def" /\ doc[3] \in {"emu-nt", "emu-prodref", "emu-xref"}
  /\ linked[1].entry = TargetId
  /\ linked[3].entry = TargetId

(***************************************************************************)
(* C7 as claimed: the Autolinker starts only after the Reference Resolver  *)
(* (the linking of xrefs, non-terminal and production references) has      *)
(* fully completed.                                                        *)
(***************************************************************************)
C7_AsClaimed == Began("autolink") => AllLinked

(***************************************************************************)
(* C7, amended: after the traversal the passes run one after another in    *)
(* the order Replacement-Step Resolver, Autolinker, Reference Resolver;    *)
(* none starts before its predecessor has fully completed.                 *)
(***************************************************************************)
C7_PassesInOrder ==
  /\ IsPrefix(Restrict(phaseLog, Range(PassesInOrder)), PassesInOrder)
  /\ Began("replacement") => WalkComplete
  /\ Began("autolink") => offsetsSet = Len(declarations) /\ ~Running("replacement")
  /\ (Began("xrefs") \/ DOMAIN linked # {}) =>
        /\ Began("autolink") /\ ~Running("autolink")
        /\ autolinked = textSpans
  /\ Began("referenceGraph") => AllLinked

\* every pass had work to do and build() returned
C7_Witness ==
  /\ bpc = "returned"
  /\ doc = <<"emu-alg", "text", "emu-xref">>
  /\ offsetsSet = 1 /\ autolinked = <<2>> /\ 3 \in DOMAIN linked

\* the body of phase p begins in this step although cancellation is requested
BeginsCancelled(p) == bpc = p /\ ~begun /\ cancellationRequested /\ begun'

\* build() is at the entry of phase p and cancellation is requested
EntersCancelled(p) == bpc = p /\ ~begun /\ cancellationRequested

(***************************************************************************)
(* C8 as claimed: none of biblio loading, import loading, boilerplate      *)
(* construction and replacement-step resolution begins once cancellation   *)
(* has been requested: each checks the signal at its start.                *)
(***************************************************************************)
C8_AsClaimed ==
  [][\A p \in {"ecma262Biblio", "biblios", "imports", "boilerplate", "replacement"} :
       ~BeginsCancelled(p)]_vars

(***************************************************************************)
(* C8, amended: if cancellation has been requested by the time biblio      *)
(* loading (loadECMA262Biblio, loadBiblios) or boilerplate construction    *)
(* starts, the signal is checked at the start of that phase and build()    *)
(* ends cancelled there, without running the phase.                        *)
(***************************************************************************)
C8_CancellationCheckedAtEntry ==
  [][\A p \in {"ecma262Biblio", "biblios", "boilerplate"} :
       EntersCancelled(p) => (bpc' = "cancelled" /\ ~begun' /\ phaseLog' = phaseLog)]_vars

\* cancellation is requested after the biblios were loaded; build() ends
\* cancelled at the entry of buildBoilerplate, import loading being the last
\* phase that ran
C8_Witness ==
  /\ bpc = "cancelled"
  /\ cancellationRequested
  /\ phaseLog # <<>>
  /\ Last(phaseLog) = "imports"

ReplNext ==
  \/ PlainEnter /\ UNCHANGED <<bvars, wvars, gvars, xvars>>
  \/ \E shape \in Shapes, target \in TargetIds :
       ReplacementAlgorithmEnter(shape, target) /\ UNCHANGED <<bvars, wvars, gvars, xvars>>
  \/ WalkFinished /\ UNCHANGED <<bvars, wvars, gvars, xvars>>
  \/ Defer /\ UNCHANGED <<bvars, wvars, gvars, xvars>>
  \/ WarnMissing /\ UNCHANGED <<bvars, wvars, gvars, xvars>>
  \/ WarnNotStep /\ UNCHANGED <<bvars, wvars, gvars, xvars>>
  \/ Resolve /\ UNCHANGED <<bvars, wvars, gvars, xvars>>
  \/ RectifyEntry /\ UNCHANGED <<bvars, wvars, gvars, xvars>>
  \/ Reactivate /\ UNCHANGED <<bvars, wvars, gvars, xvars>>
  \/ Return /\ UNCHANGED <<bvars, wvars, gvars, xvars>>
  \/ Finish /\ UNCHANGED <<bvars, wvars, gvars, xvars>>

ReplInit == ReplInitState /\ BuildIdle /\ WalkIdle /\ GraphIdle /\ ExtraIdle

SpecRepl == ReplInit /\ [][ReplNext]_vars

\* build() calls setReplacementAlgorithmOffsets synchronously (line 469): nothing
\* interleaves with it and a step that can be taken is taken
SpecReplLive == SpecRepl /\ WF_vars(ReplNext)

(***************************************************************************)
(* Vocabulary of the statements about the resolver.  It reads the state    *)
(* once the traversal has collected every declaration.                     *)
(***************************************************************************)
Collected == rpc \in {"loop", "done"}

TargetOf(a) == replacementAlgorithms[a].target

ContainedIds(a) == Range(replacementAlgorithmToContainedLabeledStepEntries[a])

\* a replaces a labeled step of b
DependsOn(a, b) == TargetOf(a) \in ContainedIds(b)

RECURSIVE DependencyClosure(_)
DependencyClosure(S) ==
  LET more == S \cup {b \in Elements : \E a \in S : DependsOn(a, b)}
  IN IF more = S THEN S ELSE DependencyClosure(more)

OnCycle(a) == a \in DependencyClosure({b \in Elements : DependsOn(a, b)})

Called(a) == \E i \in DOMAIN calls : calls[i].element = a

WarningsAbout(a) == {i \in DOMAIN warnings : warnings[i].type # "global" /\ warnings[i].node = a}

GlobalDiagnostics == {i \in DOMAIN warnings : warnings[i].type = "global"}

IsPending(a) == \E t \in DOMAIN pending : a \in Range(pending[t])

\* default numbering: no start attribute, no class, the paths the entries were created with
DefaultNumbering(a) ==
  /\ rootListStart[a] = <<>>
  /\ rootListClass[a] = {}
  /\ \A id \in ContainedIds(a) : biblio[id].stepNumbers = provisional[id]
  /\ \A id \in ContainedIds(a) : id \in labeledStepsToBeRectified
  /\ ~Called(a)

(***************************************************************************)
(* C1.  When the declarations contain a cycle, the resolver ends with      *)
(* exactly one global 'invalid-replacement' diagnostic (never more than    *)
(* one at any time), and no algorithm on a cycle is ever given a start     *)
(* index, a nesting class or rewritten paths.                              *)
(***************************************************************************)
C1_CycleOneGlobalDiagnostic ==
  Collected =>
    /\ Cardinality(GlobalDiagnostics) <= 1
    /\ \A i \in GlobalDiagnostics : warnings[i] = GlobalWarning
    /\ \A a \in Elements : OnCycle(a) => DefaultNumbering(a)
    /\ (rpc = "done" /\ \E a \in Elements : OnCycle(a)) =>
          Cardinality(GlobalDiagnostics) = 1

\* two algorithms replace a step of each other, the third waits on one of them
C1_Witness ==
  /\ rpc = "done"
  /\ DependsOn(1, 2) /\ DependsOn(2, 1) /\ DependsOn(3, 1)
  /\ Cardinality(DOMAIN pending) >= 2
  /\ Cardinality(GlobalDiagnostics) = 1

(***************************************************************************)
(* C2.  Once a declaration was resolved against a target whose final path  *)
(* is P, every labeled step of its algorithm, created with local path L,   *)
(* has the path P ++ Tail(L) and is no longer to be rectified.             *)
(***************************************************************************)
C2_ContainedPathsRectified ==
  rpc = "done" =>
    \A i \in DOMAIN calls :
      LET a == calls[i].element
          P == biblio[TargetOf(a)].stepNumbers
      IN /\ calls[i].stepNumbers = P
         /\ \A id \in ContainedIds(a) :
              /\ biblio[id].stepNumbers = P \o SubSeq(provisional[id], 2, Len(provisional[id]))
              /\ id \notin labeledStepsToBeRectified

\* a chain: 1 replaces a plain step, 2 a nested step of 1, 3 a nested step of 2,
\* declared in the opposite order, so that 2 and 3 are reactivated
C2_Witness ==
  /\ rpc = "done"
  /\ TargetOf(3) = S1 /\ TargetOf(2) = StepId(3, 2) /\ TargetOf(1) = StepId(2, 2)
  /\ \A a \in 1..3 : replacementAlgorithmToContainedLabeledStepEntries[a] # <<>>
  /\ biblio[StepId(1, 2)].stepNumbers = <<2, 1, 2, 2, 2>>

\* the example of the specification: s1 has path [2,1], algorithm a replaces s1
\* and labels its steps at local paths [1] and [2]
ExampleC3(a) ==
  /\ TargetOf(a) = S1
  /\ Len(replacementAlgorithmToContainedLabeledStepEntries[a]) = 2
  /\ provisional[StepId(a, 1)] = <<1>>
  /\ provisional[StepId(a, 2)] = <<2>>

\* C3 as claimed: in the example the resolved paths are [2,1,1] and [2,1,2],
\* the start index is 1 and the class is nested-once
C3_AsClaimed ==
  rpc = "done" =>
    \A a \in Elements : ExampleC3(a) =>
      /\ biblio[StepId(a, 1)].stepNumbers = <<2, 1, 1>>
      /\ biblio[StepId(a, 2)].stepNumbers = <<2, 1, 2>>
      /\ rootListStart[a] = <<1>>
      /\ rootListClass[a] = {"nested-once"}

\* C3, amended: in the example both resolved paths are [2,1] (the first element
\* of a local path is dropped, nothing is added for it); the start index is 1
\* and the class is nested-once
C3_ExampleResolved ==
  rpc = "done" =>
    \A a \in Elements : ExampleC3(a) =>
      /\ biblio[StepId(a, 1)].stepNumbers = <<2, 1>>
      /\ biblio[StepId(a, 2)].stepNumbers = <<2, 1>>
      /\ rootListStart[a] = <<1>>
      /\ rootListClass[a] = {"nested-once"}

C3_Witness ==
  /\ rpc = "done"
  /\ ExampleC3(2)
  /\ Called(2)

\* the classes of the specification's table, by length of the target's path
ClassByLength ==
  <<{}, {"nested-once"}, {"nested-twice"}, {"nested-thrice"}, {"nested-four-times"}>>

ExpectedClass(n) == IF n \in DOMAIN ClassByLength THEN ClassByLength[n] ELSE {"nested-lots"}

(***************************************************************************)
(* C4.  A resolved declaration whose target has path P: the start index is *)
(* the last element of P, and the class follows the length of P: none for  *)
(* 1, then nested-once, -twice, -thrice, -four-times, and nested-lots for  *)
(* every length from 6 on.                                                 *)
(***************************************************************************)
C4_StartAndNestingClass ==
  rpc = "done" =>
    \A a \in Elements : Called(a) =>
      LET P == biblio[TargetOf(a)].stepNumbers
      IN /\ rootListStart[a] = <<P[Len(P)]>>
         /\ rootListClass[a] = ExpectedClass(Len(P))

\* targets of lengths 5, 6 and 7: nested-four-times, then nested-lots twice
C4_Witness ==
  /\ rpc = "done"
  /\ \A a \in Elements : Called(a)
  /\ {Len(biblio[TargetOf(a)].stepNumbers) : a \in Elements} = {5, 6, 7}

InvalidTarget(a) == ~HasEntry(TargetOf(a)) \/ byId(TargetOf(a)).type # "step"

Handled(a) == Called(a) \/ IsPending(a) \/ WarningsAbout(a) # {}

(***************************************************************************)
(* C5.  A declaration whose target id has no entry, or an entry that is no *)
(* step, gets exactly one attribute diagnostic ('invalid-replacement' on   *)
(* 'replaces-step'), keeps its start index, class and step paths, and the  *)
(* loop goes on: every declaration is handled by the end.                  *)
(***************************************************************************)
C5_InvalidTargetDiagnosed ==
  rpc = "done" =>
    /\ \A a \in Elements :
         /\ InvalidTarget(a) =>
              /\ Cardinality(WarningsAbout(a)) = 1
              /\ \A i \in WarningsAbout(a) :
                   /\ warnings[i].type = "attr"
                   /\ warnings[i].attr = "replaces-step"
                   /\ warnings[i].ruleId = "invalid-replacement"
              /\ rootListStart[a] = <<>>
              /\ rootListClass[a] = {}
              /\ \A id \in ContainedIds(a) : biblio[id].stepNumbers = provisional[id]
         /\ ~InvalidTarget(a) => WarningsAbout(a) = {}
         /\ Handled(a)
    /\ ri = Len(replacementAlgorithms) + 1

\* a missing id first, a clause id second, then a declaration that resolves
C5_Witness ==
  /\ rpc = "done"
  /\ TargetOf(1) = MissingId /\ TargetOf(2) = C1Id /\ TargetOf(3) = S3
  /\ Called(3)
  /\ Len(warnings) = 2

\* the number of times setReplacementAlgorithmStart was called on element a
CallsOf(a) == Cardinality({i \in DOMAIN calls : calls[i].element = a})

\* what is left in pending was never handed to setReplacementAlgorithmStart
PendingNeverCalled == \A a \in Elements : IsPending(a) => ~Called(a)

\* the resolver has returned: whatever is left in pending is reported once
PendingReported ==
  rpc = "done" =>
    (DOMAIN pending # {} <=> GlobalDiagnostics # {}) /\ Cardinality(GlobalDiagnostics) <= 1

(***************************************************************************)
(* C15.  The resolver terminates on every list of declarations, cyclic and *)
(* self-referential ones included; each declaration's algorithm is handed  *)
(* to setReplacementAlgorithmStart at most once; what is left in pending   *)
(* at the end was never handed over, is reported, and nothing runs after   *)
(* the resolver has returned.                                              *)
(***************************************************************************)
C15_TerminatesEachCalledOnce ==
  /\ <>(rpc = "done")
  /\ [](\A a \in Elements : CallsOf(a) <= 1)
  /\ [](PendingNeverCalled /\ PendingReported)
  /\ [][rpc # "done"]_vars

\* 1 replaces a step of its own, 2 and 3 replace a step of each other: all
\* three are left in pending when the resolver returns
C15_Witness ==
  /\ rpc = "done"
  /\ DependsOn(1, 1) /\ DependsOn(2, 3) /\ DependsOn(3, 2)
  /\ \A a \in Elements : IsPending(a)

\* the target of a is an entry of type step
TargetIsStep(a) == HasEntry(TargetOf(a)) /\ byId(TargetOf(a)).type = "step"

\* the declarations whose target chain is acyclic and ends at an existing step
\* outside every replacement algorithm: the least set that holds a when the
\* target of a is a step of the ordinary algorithm, or a labeled step of an
\* algorithm already in the set
RECURSIVE ResolvableFrom(_)
ResolvableFrom(S) ==
  LET more == S \cup {a \in Elements :
                        /\ TargetIsStep(a)
                        /\ \/ TargetOf(a) \in DOMAIN PlainSteps
                           \/ \E b \in S : DependsOn(a, b)}
  IN IF more = S THEN S ELSE ResolvableFrom(more)

Resolvable == ResolvableFrom({})

ResolvedAtEnd ==
  /\ \A a \in Resolvable :
       /\ Called(a)
       /\ ~IsPending(a)
       /\ rootListStart[a] # <<>>
       /\ WarningsAbout(a) = {}
  /\ Resolvable = Elements => pending = <<>> /\ GlobalDiagnostics = {}

(***************************************************************************)
(* C17.  Every declaration whose target chain is acyclic and ends at an    *)
(* existing step that is not inside an unresolved replacement is resolved  *)
(* by the time the resolver returns, wherever it stands in the document    *)
(* and whether or not other declarations form a cycle; when every          *)
(* declaration is of this kind, pending ends empty and there is no global  *)
(* diagnostic.                                                             *)
(***************************************************************************)
C17_AcyclicChainsResolved == (rpc = "loop") ~> (rpc = "done" /\ ResolvedAtEnd)

\* 1 and 2 both wait for a step of 3, which is declared last and replaces a
\* plain step: both are reactivated, and nothing is left in pending
C17_Witness ==
  /\ rpc = "done"
  /\ DependsOn(1, 3) /\ TargetOf(1) = TargetOf(2) /\ TargetOf(3) = S1
  /\ Resolvable = Elements
  /\ \A a \in Elements : Called(a)

\* the algorithm that holds the labeled step t, 0 when t is no such step
ContainerOf(t) ==
  IF \E b \in Elements : t \in ContainedIds(b)
  THEN CHOOSE b \in Elements : t \in ContainedIds(b)
  ELSE 0

\* every call so far was made with the path its target has now, and a target
\* inside a replacement algorithm was rectified by an earlier call on that
\* algorithm: its path is that call's path followed by the tail of its local path
CallsUseFinalPaths ==
  \A i \in DOMAIN calls :
    LET t == TargetOf(calls[i].element)
        b == ContainerOf(t)
    IN /\ t \notin labeledStepsToBeRectified
       /\ calls[i].stepNumbers = biblio[t].stepNumbers
       /\ b # 0 =>
            \E j \in 1..(i - 1) :
              /\ calls[j].element = b
              /\ calls[i].stepNumbers = calls[j].stepNumbers \o Tail(provisional[t])

\* the loop passes a declaration whose target is still to be rectified: no
\* call, no start index, no class; the element waits in pending[target]
DeferredOnly ==
  (AtDeclaration /\ Decl.target \in labeledStepsToBeRectified /\ ri' # ri) =>
    /\ calls' = calls
    /\ rootListStart' = rootListStart /\ rootListClass' = rootListClass
    /\ biblio' = biblio
    /\ Decl.target \in DOMAIN pending'
    /\ Last(pending'[Decl.target]) = Decl.element

\* a deferred element is called: the call is made by the activation on the
\* algorithm that holds the target, the target is the entry that activation
\* rectified last, and the path is the one written to that entry
ReactivatedByContainer ==
  (calls' # calls /\ (IsPending(Last(calls').element) \/ callStack # <<>>)) =>
    LET c == Last(calls')
        t == TargetOf(c.element)
    IN /\ callStack # <<>>
       /\ Top.todo # <<>> /\ Head(Top.todo) = c.element
       /\ t \in ContainedIds(Top.element)
       /\ t = TopEntries[Top.k - 1]
       /\ t \notin labeledStepsToBeRectified
       /\ c.stepNumbers = RectifiedPath(Top.stepNumbers, provisional[t])
       /\ c.stepNumbers = biblio[t].stepNumbers
       /\ ~IsPending(c.element)

\* a rectified path is final: the entry of a step that is not to be rectified
\* is not written again
RectifiedIsFinal ==
  \A id \in DOMAIN biblio :
    (rpc = "loop" /\ id \notin labeledStepsToBeRectified) => biblio'[id] = biblio[id]

(***************************************************************************)
(* C18.  No replacement algorithm is given a start index, a nesting class  *)
(* or a path prefix from a provisional path: every call of                 *)
(* setReplacementAlgorithmStart is made with the final path of the target. *)
(* A declaration whose target is still to be rectified is only deferred;   *)
(* it is reactivated only by the call on the algorithm that holds the      *)
(* target step, right after that step's final path was written, and with   *)
(* that path.                                                              *)
(***************************************************************************)
C18_NoProvisionalPath ==
  /\ []CallsUseFinalPaths
  /\ [][DeferredOnly /\ ReactivatedByContainer /\ RectifiedIsFinal]_vars

\* the innermost of two nested calls: the element waited for a nested step of
\* the algorithm under resolution and is called with the rectified path
C18_Witness ==
  /\ rpc = "loop"
  /\ Len(callStack) = 2
  /\ TargetOf(Top.element) \in ContainedIds(callStack[1].element)
  /\ Len(provisional[TargetOf(Top.element)]) = 2
  /\ Top.stepNumbers = callStack[1].stepNumbers \o Tail(provisional[TargetOf(Top.element)])
  /\ Top.stepNumbers # provisional[TargetOf(Top.element)]

(***************************************************************************)
(* setReplacementAlgorithmOffsets as a function of the declaration list:   *)
(* the same statements as above, run to the end on a list given in any     *)
(* order.  st is the state the function works on: the stepNumbers of the   *)
(* step entries, labeledStepsToBeRectified, pending, the start index and   *)
(* class of every root list, and the per-declaration diagnostics.          *)
(***************************************************************************)
\* the state build() hands to the function: every labeled step of a replacement
\* algorithm awaits rectification and has the path it was created with
BeforeOffsets ==
  [paths |-> provisional,
   rect |-> UNION {Range(replacementAlgorithmToContainedLabeledStepEntries[e]) :
                     e \in DOMAIN replacementAlgorithmToContainedLabeledStepEntries},
   pend |-> <<>>,
   start |-> [e \in Elements |-> <<>>],
   class |-> [e \in Elements |-> {}],
   warns |-> {}]

\* mutant: the target is used as it stands, rectified or not
ToBeRectified_Never(st, target) == FALSE

\* this.labeledStepsToBeRectified.has(target)
ToBeRectified(st, target) == target \in st.rect

RECURSIVE startOf(_, _, _)
RECURSIVE fixUp(_, _, _, _)
RECURSIVE redo(_, _, _)

\* setReplacementAlgorithmStart(element, stepNumbers)
startOf(st, element, stepNumbers) ==
  fixUp([st EXCEPT !.start[element] = <<StartIndex(stepNumbers)>>,
                   !.class[element] = @ \cup NestingClass(stepNumbers)],
        element, stepNumbers, 1)

\* the for-of loop over the contained labeled step entries, from the k-th on
fixUp(st, element, stepNumbers, k) ==
  LET contained == replacementAlgorithmToContainedLabeledStepEntries[element]
  IN IF k > Len(contained)
     THEN st
     ELSE LET id == contained[k]
              path == RectifiedPath(stepNumbers, st.paths[id])
              fixed == [st EXCEPT !.paths[id] = path, !.rect = @ \ {id}]
              struck == [fixed EXCEPT !.pend = [t \in DOMAIN st.pend \ {id} |-> st.pend[t]]]
          IN fixUp(IF id \in DOMAIN st.pend THEN redo(struck, st.pend[id], path) ELSE fixed,
                   element, stepNumbers, k + 1)

\* for (let replacementAlgorithm of todo) setReplacementAlgorithmStart(...)
redo(st, todo, stepNumbers) ==
  IF todo = <<>>
  THEN st
  ELSE redo(startOf(st, Head(todo), stepNumbers), Tail(todo), stepNumbers)

RECURSIVE offsetsOf(_, _)

\* for (let { element, target } of this.replacementAlgorithms)
offsetsOf(st, list) ==
  IF list = <<>>
  THEN st
  ELSE LET element == Head(list).element
           target == Head(list).target
           step ==
             IF ToBeRectified(st, target)
             THEN [st EXCEPT !.pend = IF target \in DOMAIN st.pend
                                      THEN [st.pend EXCEPT ![target] = Append(@, element)]
                                      ELSE st.pend @@ (target :> <<element>>)]
             ELSE IF ~HasEntry(target)
             THEN [st EXCEPT !.warns = @ \cup {AttrWarning(element, "could not find step")}]
             ELSE IF byId(target).type # "step"
             THEN [st EXCEPT !.warns =
                     @ \cup {AttrWarning(element, "expected algorithm to replace a step")}]
             ELSE startOf(st, element, st.paths[target])
       IN offsetsOf(step, Tail(list))

\* what the claim compares: the path of every step entry, the start index and
\* class of every algorithm, the per-declaration diagnostics, the global one
OutcomeOf(st) ==
  [paths |-> st.paths, start |-> st.start, class |-> st.class,
   warns |-> st.warns, global |-> DOMAIN st.pend # {}]

\* the same of the state the resolver has left
Outcome ==
  [paths |-> [id \in DOMAIN provisional |-> byId(id).stepNumbers],
   start |-> rootListStart, class |-> rootListClass,
   warns |-> {w \in Range(warnings) : w.type = "attr"},
   global |-> GlobalWarning \in Range(warnings)]

Orders(n) == {p \in [1..n -> 1..n] : \A i, j \in 1..n : p[i] = p[j] => i = j}

Reordered(list, p) == [i \in DOMAIN list |-> list[p[i]]]

\* C25: when the resolver has returned, running it on the declaration list in
\* any other order gives the same step-number path of every step entry, the
\* same start index and nesting class of every algorithm, the same set of
\* per-declaration diagnostics, and the global diagnostic in the same cases.
C25_OrderIndependent ==
  rpc = "done" =>
    \A p \in Orders(Len(replacementAlgorithms)) :
      OutcomeOf(offsetsOf(BeforeOffsets, Reordered(replacementAlgorithms, p))) = Outcome

\* a chain of three resolved against the document order (each declaration
\* waited for the next one), beside which the reverse order defers nothing
C25_Witness ==
  /\ rpc = "done"
  /\ \A a \in Elements : Called(a)
  /\ TargetOf(1) \in ContainedIds(2)
  /\ TargetOf(2) \in ContainedIds(3)
  /\ Len(rootListStart[1]) = 1
  /\ ~(GlobalWarning \in Range(warnings))

(***************************************************************************)
(* walk(): the recursive traversal of the document (lines 1073-1180).      *)
(* The tree is live: oldids handling, enter hooks and emdTextNode insert   *)
(* nodes while the walk is under way.  Nodes are numbered; body is node 1   *)
(* and 0 stands for null.                                                   *)
(***************************************************************************)
\* element kinds of the documents: one without builder or suppression, a
\* clause, a heading, one in both suppression sets, an algorithm
ElementNames == {"DIV", "EMU-CLAUSE", "H1", "PRE", "EMU-ALG"}

\* character data: text, text of white space only, and comments
NodeNames == ElementNames \cup {"#text", "#ws", "#comment"}

\* the autolink-suppression set imported from ./autolinker, as far as
\* ElementNames goes
NO_CLAUSE_AUTOLINK == {"PRE", "H1"}

\* line 113, as far as ElementNames goes
NO_EMD == {"PRE", "EMU-ALG"}

\* the keys of visitorMap (lines 126-145), as far as ElementNames goes
VisitorElements == {"EMU-CLAUSE", "H1", "EMU-ALG"}

\* this.namespace of the Spec, the namespace of text outside every clause
SpecNamespace == <<"ns", 0>>

\* the value of the oldids attribute "a, b" after split and trim
OldIds == << <<"old", 1>>, <<"old", 2>> >>

RECURSIVE AncestorsIn(_, _)
AncestorsIn(p, n) == IF n = 1 THEN {1} ELSE {n} \cup AncestorsIn(p, p[n])

\* parent vectors of the trees on 1..MaxNodes numbered in document order
PreorderParents ==
  {p \in {q \in [2..MaxNodes -> 1..MaxNodes] : \A n \in 2..MaxNodes : q[n] < n} :
     \A n \in 3..MaxNodes : p[n] \in AncestorsIn(p, n - 1)}

ChildrenIn(p, n) == SelectSeq([i \in 1..MaxNodes |-> i], LAMBDA i : i > 1 /\ p[i] = n)

\* the document after the constructor and the earlier phases of build():
\* any tree in which only elements have children, at most one element with
\* oldids and at most one clause with a namespace attribute
WalkInitState ==
  /\ \E p \in PreorderParents, k \in [1..MaxNodes -> NodeNames \cup {"BODY"}],
        o \in 0..MaxNodes, s \in 0..MaxNodes :
       /\ k[1] = "BODY"
       /\ \A n \in 2..MaxNodes : k[n] # "BODY" /\ k[p[n]] \in ElementNames \cup {"BODY"}
       /\ o # 0 => k[o] \in ElementNames
       /\ s # 0 => k[s] = "EMU-CLAUSE"
       /\ nodeName = k
       /\ childNodes = [n \in 1..MaxNodes |-> ChildrenIn(p, n)]
       /\ parentNode = [n \in 1..MaxNodes |-> IF n = 1 THEN 0 ELSE p[n]]
       /\ attrs = [n \in 1..MaxNodes |->
                    [id |-> IF k[n] = "EMU-CLAUSE" THEN <<"sec", n>> ELSE <<>>,
                     oldids |-> IF n = o THEN OldIds ELSE <<>>,
                     namespace |-> IF n = s THEN <<"ns", n>> ELSE <<>>]]
  /\ currentNode = 1
  /\ context = InitialContext
  /\ activations = <<>>
  /\ wpc = "call"
  /\ header = [n \in 1..MaxNodes |-> 0]
  /\ textNodes = <<>>
  /\ ai = 1 /\ aj = 1
  /\ rewritten = <<>>
  /\ visited = <<>>
  /\ inserted = {}
  /\ expanded = <<>>
  /\ entryFlags = <<>>
  /\ hookLog = <<>>

tree == <<nodeName, childNodes, parentNode, attrs>>

\* nodeType === 3
IsText(n) == nodeName[n] \in {"#text", "#ws"}

\* createTreeWalker(document.body, 1 | 4): elements and text nodes
Shown(n) == nodeName[n] # "#comment"

\* the siblings that follow n in the live child list of its parent
SiblingsAfter(n) ==
  IF parentNode[n] = 0 THEN <<>>
  ELSE LET sibs == childNodes[parentNode[n]]
       IN  SubSeq(sibs, IndexOf(sibs, n) + 1, Len(sibs))

FirstShown(seq) == LET c == SelectSeq(seq, Shown) IN IF c = <<>> THEN 0 ELSE Head(c)

\* walker.firstChild() with the walker at n
firstChild(n) == FirstShown(childNodes[n])

\* the nodes that were spliced in as later siblings
SplicedSiblings == {r.node : r \in {q \in inserted : q.by \in {"emd", "enter-sibling"}}}

\* mutant: the siblings are taken from the child list as it was before the splices
nextSibling_Snapshot(n) ==
  FirstShown(SelectSeq(SiblingsAfter(n), LAMBDA k : k \notin SplicedSiblings))

\* walker.nextSibling() with the walker at n
nextSibling(n) == FirstShown(SiblingsAfter(n))

\* the loop of lines 1096-1099, then node.nextSibling; 0 when the loop ends on null
RECURSIVE resumeBoundary(_)
resumeBoundary(n) ==
  IF n = 0 THEN 0
  ELSE IF SiblingsAfter(n) # <<>> THEN Head(SiblingsAfter(n))
  ELSE resumeBoundary(parentNode[n])

InsertAfter(seq, x, new) ==
  LET i == IndexOf(seq, x) IN SubSeq(seq, 1, i) \o new \o SubSeq(seq, i + 1, Len(seq))

\* the nodes that the next k calls of createElement / createTextNode return
NewNodes(k) == [i \in 1..k |-> Len(nodeName) + i]

\* the tree after new nodes with the given names and ids became children of
\* par, whose child list is then kids
Adopt(par, kids, names, ids) ==
  /\ nodeName' = nodeName \o names
  /\ childNodes' = [childNodes EXCEPT ![par] = kids] \o [i \in DOMAIN names |-> <<>>]
  /\ parentNode' = parentNode \o [i \in DOMAIN names |-> par]
  /\ attrs' = attrs \o [i \in DOMAIN names |->
                          [id |-> ids[i], oldids |-> <<>>, namespace |-> <<>>]]

\* lines 1078-1085: context.node is set, the node is pushed, and emd
\* processing resumes at startEmd
Arrive(n) ==
  IF n = context.startEmd
    THEN [context EXCEPT !.node = n, !.tagStack = Append(@, n), !.startEmd = 0,
                         !.inNoEmd = FALSE]
    ELSE [context EXCEPT !.node = n, !.tagStack = Append(@, n)]

\* the nodes that hooks and emdTextNode spliced in so far
Spliced == {r \in inserted : r.by # "oldids"}

\* line 1090: a text node of white space only
SkipEmptyText ==
  /\ wpc = "call"
  /\ nodeName[currentNode] = "#ws"
  /\ context' = Arrive(currentNode)
  /\ visited' = Append(visited, currentNode)
  /\ wpc' = "nextSibling"
  /\ UNCHANGED <<tree, currentNode, activations, header, textNodes, ai, aj,
                 rewritten, inserted, expanded, entryFlags, hookLog>>

\* line 1110: clause is the innermost open clause, else the Spec (0)
TextNodeContext(n, c) ==
  [node |-> n,
   clause |-> IF c.clauseStack = <<>> THEN 0 ELSE Last(c.clauseStack).node,
   inAlg |-> c.inAlg,
   currentId |-> c.currentId]

\* mutant: the namespace of the Spec, whatever clause is open
NamespaceAt_Document(c) == SpecNamespace

\* line 1111
NamespaceAt(c) == IF c.clauseStack = <<>> THEN SpecNamespace ELSE Last(c.clauseStack).namespace

\* lines 1112-1118: _textNodes[namespace] = _textNodes[namespace] || []; push
PushTextNode(tn, ns, e) ==
  IF \E i \in DOMAIN tn : tn[i].namespace = ns
    THEN [i \in DOMAIN tn |->
            IF tn[i].namespace = ns THEN [tn[i] EXCEPT !.nodes = Append(@, e)] ELSE tn[i]]
    ELSE Append(tn, [namespace |-> ns, nodes |-> <<e>>])

\* what emdTextNode leaves after the text node: nothing, or one more text node
EmdFragments == {<<>>, <<"#text">>}

\* lines 1087-1122: a text node that is not empty.  emdTextNode keeps the
\* node and inserts the rest of the fragment after it.
VisitText(fragment) ==
  /\ wpc = "call"
  /\ nodeName[currentNode] = "#text"
  /\ LET n == currentNode
         arrived == Arrive(n)
         expand == ~arrived.inNoEmd
         boundary == resumeBoundary(n)
         marked == IF expand
                     THEN [arrived EXCEPT !.inNoEmd = TRUE,
                                          !.startEmd = IF boundary # 0 THEN boundary ELSE @]
                     ELSE arrived
         new == NewNodes(Len(fragment))
     IN  /\ IF expand THEN Cardinality(Spliced) + Len(fragment) <= MaxInserted
                      ELSE fragment = <<>>
         /\ IF fragment = <<>>
              THEN UNCHANGED <<tree, inserted>>
              ELSE /\ Adopt(parentNode[n], InsertAfter(childNodes[parentNode[n]], n, new),
                            fragment, [i \in DOMAIN fragment |-> <<>>])
                   /\ inserted' = inserted \cup {[node |-> new[i], by |-> "emd"] : i \in DOMAIN new}
         /\ context' = marked
         /\ expanded' = IF expand THEN Append(expanded, [node |-> n, boundary |-> boundary])
                                 ELSE expanded
         /\ textNodes' = IF ~marked.inNoAutolink
                           THEN PushTextNode(textNodes, NamespaceAt(marked),
                                             TextNodeContext(n, marked))
                           ELSE textNodes
  /\ visited' = Append(visited, currentNode)
  /\ wpc' = "nextSibling"
  /\ UNCHANGED <<currentNode, activations, header, ai, aj, rewritten, entryFlags, hookLog>>

\* lines 1126-1140: one span per old id, each inserted before childNodes[0]
Reverse(seq) == [i \in DOMAIN seq |-> seq[Len(seq) + 1 - i]]

\* mutant: parentId is not taken from the context
Activation_NoParentId(n, c) ==
  [node |-> n,
   changedInNoAutolink |-> nodeName[n] \in NO_CLAUSE_AUTOLINK /\ ~c.inNoAutolink,
   changedInNoEmd |-> nodeName[n] \in NO_EMD /\ ~c.inNoEmd,
   parentId |-> <<>>]

\* lines 1074-1075, 1142, 1148-1157: the locals of a call of walk() on element n
\* that arrives with the context c
Activation(n, c) ==
  [node |-> n,
   changedInNoAutolink |-> nodeName[n] \in NO_CLAUSE_AUTOLINK /\ ~c.inNoAutolink,
   changedInNoEmd |-> nodeName[n] \in NO_EMD /\ ~c.inNoEmd,
   parentId |-> c.currentId]

\* lines 1079-1157: walk() is called on an element, up to the enter hook
EnterElement ==
  /\ wpc = "call"
  /\ ~IsText(currentNode)
  /\ LET n == currentNode
         arrived == Arrive(n)
         oldids == attrs[n].oldids
         spans == NewNodes(Len(oldids))
     IN  /\ IF oldids = <<>>
              THEN UNCHANGED <<tree, inserted>>
              ELSE /\ Adopt(n, Reverse(spans) \o childNodes[n],
                            [i \in DOMAIN oldids |-> "SPAN"], oldids)
                   /\ inserted' = inserted \cup
                                    {[node |-> spans[i], by |-> "oldids"] : i \in DOMAIN spans}
         /\ context' = [arrived EXCEPT
                          !.currentId = IF attrs[n].id # <<>> THEN attrs[n].id ELSE @,
                          !.inNoAutolink = @ \/ nodeName[n] \in NO_CLAUSE_AUTOLINK,
                          !.inNoEmd = @ \/ nodeName[n] \in NO_EMD]
         /\ activations' = Append(activations, Activation(n, arrived))
         /\ entryFlags' = Append(entryFlags, [inNoAutolink |-> context.inNoAutolink,
                                              inNoEmd |-> context.inNoEmd])
  /\ visited' = Append(visited, currentNode)
  /\ wpc' = "enter"
  /\ UNCHANGED <<currentNode, header, textNodes, ai, aj, rewritten, expanded, hookLog>>

\* H1.enter (src/unnamed/part_000, lines 7-12)
H1Enter(n) ==
  LET clauseStack == context.clauseStack
      clause == Last(clauseStack).node
  IN  /\ header' = IF clauseStack # <<>> /\ header[clause] = 0
                     THEN [header EXCEPT ![clause] = n]
                     ELSE header
      /\ UNCHANGED context

\* Clause.enter: the clause is pushed; its namespace is its own attribute or
\* that of what encloses it
ClauseEnter(n) ==
  /\ context' = [context EXCEPT !.clauseStack =
                   Append(@, [node |-> n,
                              namespace |-> IF attrs[n].namespace # <<>>
                                              THEN attrs[n].namespace
                                              ELSE NamespaceAt(context)])]
  /\ UNCHANGED header

\* Algorithm.enter
AlgorithmEnter ==
  /\ context' = [context EXCEPT !.inAlg = TRUE]
  /\ UNCHANGED header

\* lines 1159-1162 and 1175: visitor.enter(context) or visitor.exit(context)
\* is called when the element has a builder
HookCalled(hook, element, c) ==
  IF nodeName[element] \in VisitorElements
    THEN Append(hookLog, [hook |-> hook, element |-> element, node |-> c.node])
    ELSE hookLog

\* where an enter hook may put a node that it creates
Splices == {"none", "child", "sibling"}

\* lines 1159-1162: the enter hook of the builder of the element, if it has
\* one.  The builders that are not H1 may add a node below or after it.
VisitorEnter(splice) ==
  /\ wpc = "enter"
  /\ LET n == Last(activations).node
         new == NewNodes(1)
     IN  /\ splice # "none" =>
              /\ nodeName[n] \in VisitorElements \ {"H1"}
              /\ Cardinality(Spliced) < MaxInserted
         /\ CASE splice = "none" -> UNCHANGED <<tree, inserted>>
              [] splice = "child" ->
                   /\ Adopt(n, childNodes[n] \o new, <<"#text">>, << <<>> >>)
                   /\ inserted' = inserted \cup {[node |-> new[1], by |-> "enter-child"]}
              [] splice = "sibling" ->
                   /\ Adopt(parentNode[n], InsertAfter(childNodes[parentNode[n]], n, new),
                            <<"#text">>, << <<>> >>)
                   /\ inserted' = inserted \cup {[node |-> new[1], by |-> "enter-sibling"]}
         /\ CASE nodeName[n] = "H1" -> H1Enter(n)
              [] nodeName[n] = "EMU-CLAUSE" -> ClauseEnter(n)
              [] nodeName[n] = "EMU-ALG" -> AlgorithmEnter
              [] OTHER -> UNCHANGED <<context, header>>
         /\ hookLog' = HookCalled("enter", n, context)
  /\ wpc' = "firstChild"
  /\ UNCHANGED <<currentNode, activations, textNodes, ai, aj, rewritten, visited,
                 expanded, entryFlags>>

\* lines 1164-1167: the first child is taken from the tree as it is now
FirstChild ==
  /\ wpc = "firstChild"
  /\ IF firstChild(currentNode) # 0
       THEN currentNode' = firstChild(currentNode) /\ wpc' = "call"
       ELSE UNCHANGED currentNode /\ wpc' = "exit"
  /\ UNCHANGED <<tree, context, activations, header, textNodes, ai, aj, rewritten,
                 visited, inserted, expanded, entryFlags, hookLog>>

\* mutant: context.node is left at the last child
nodeAfterLoop_Stale(n) == n

\* lines 1171-1172: walker.parentNode(); context.node = walker.currentNode
nodeAfterLoop(n) == parentNode[n]

\* lines 1168-1172: after the call on a child returned
NextSibling ==
  /\ wpc = "nextSibling"
  /\ IF nextSibling(currentNode) # 0
       THEN /\ currentNode' = nextSibling(currentNode)
            /\ wpc' = "call"
            /\ UNCHANGED context
       ELSE /\ currentNode' = parentNode[currentNode]
            /\ wpc' = "exit"
            /\ context' = [context EXCEPT !.node = nodeAfterLoop(currentNode)]
  /\ UNCHANGED <<tree, activations, header, textNodes, ai, aj, rewritten,
                 visited, inserted, expanded, entryFlags, hookLog>>

\* the exit hooks: Clause.exit pops the clause, Algorithm.exit leaves the algorithm
VisitorExit(n, c) ==
  CASE nodeName[n] = "EMU-CLAUSE" ->
         [c EXCEPT !.clauseStack = SubSeq(@, 1, Len(@) - 1)]
    [] nodeName[n] = "EMU-ALG" -> [c EXCEPT !.inAlg = FALSE]
    [] OTHER -> c

\* mutant: every element clears the flag when it is left
inNoAutolinkAfter_Always(changed, flag) == FALSE

\* line 1176
inNoAutolinkAfter(changed, flag) == IF changed THEN FALSE ELSE flag

\* mutant: every element clears the flag when it is left
inNoEmdAfter_Always(changed, flag) == FALSE

\* line 1177
inNoEmdAfter(changed, flag) == IF changed THEN FALSE ELSE flag

\* lines 1175-1179: the exit hook, the flags, the id and the tag stack
ExitElement ==
  /\ wpc = "exit"
  /\ LET top == Last(activations)
         open == SubSeq(activations, 1, Len(activations) - 1)
         left == VisitorExit(top.node, context)
     IN  /\ context' = [left EXCEPT
                          !.inNoAutolink = inNoAutolinkAfter(top.changedInNoAutolink, @),
                          !.inNoEmd = inNoEmdAfter(top.changedInNoEmd, @),
                          !.currentId = top.parentId,
                          !.tagStack = SubSeq(@, 1, Len(@) - 1)]
         /\ activations' = open
         /\ entryFlags' = SubSeq(entryFlags, 1, Len(entryFlags) - 1)
         /\ hookLog' = HookCalled("exit", top.node, context)
         /\ wpc' = IF open = <<>> THEN "walked" ELSE "nextSibling"
  /\ UNCHANGED <<tree, currentNode, header, textNodes, ai, aj, rewritten, visited,
                 inserted, expanded>>

\* lines 1012-1020: the next recorded node of the namespace is handed to
\* autolink(), which may splice a node in after it; on the first node of a
\* list the replacer of the namespace has just been made (line 1014)
AutolinkTextNode(splice) ==
  /\ wpc = "walked"
  /\ ai <= Len(textNodes)
  /\ aj <= Len(textNodes[ai].nodes)
  /\ LET n == textNodes[ai].nodes[aj].node
         new == NewNodes(1)
     IN  /\ rewritten' = Append(rewritten, n)
         /\ IF splice
              THEN /\ Cardinality(linkedIn) < MaxInserted
                   /\ Adopt(parentNode[n], InsertAfter(childNodes[parentNode[n]], n, new),
                            <<"#text">>, << <<>> >>)
                   /\ linkedIn' = linkedIn \cup {new[1]}
              ELSE UNCHANGED <<tree, linkedIn>>
  /\ compiled' = IF aj = 1 THEN Append(compiled, textNodes[ai].namespace) ELSE compiled
  /\ aj' = aj + 1
  /\ UNCHANGED <<currentNode, context, activations, wpc, header, textNodes, ai,
                 visited, inserted, expanded, entryFlags, hookLog>>

\* mutant: j is not set back to 0 for the next list
AutolinkNextNamespace_KeepsJ ==
  /\ wpc = "walked"
  /\ ai <= Len(textNodes)
  /\ aj > Len(textNodes[ai].nodes)
  /\ ai' = ai + 1
  /\ aj' = aj
  /\ UNCHANGED <<tree, currentNode, context, activations, wpc, header, textNodes,
                 rewritten, visited, inserted, expanded, entryFlags, hookLog>>

\* lines 1012-1015: the next key of _textNodes
AutolinkNextNamespace ==
  /\ wpc = "walked"
  /\ ai <= Len(textNodes)
  /\ aj > Len(textNodes[ai].nodes)
  /\ ai' = ai + 1
  /\ aj' = 1
  /\ UNCHANGED <<tree, currentNode, context, activations, wpc, header, textNodes,
                 rewritten, visited, inserted, expanded, entryFlags, hookLog>>

\* line 1022: autolink() returns
AutolinkFinished ==
  /\ wpc = "walked"
  /\ ai > Len(textNodes)
  /\ wpc' = "done"
  /\ UNCHANGED <<tree, currentNode, context, activations, header, textNodes, ai, aj,
                 rewritten, visited, inserted, expanded, entryFlags, hookLog>>

WalkNext ==
  \/ SkipEmptyText /\ UNCHANGED <<rvars, bvars, gvars, xvars>>
  \/ \E fragment \in EmdFragments : VisitText(fragment) /\ UNCHANGED <<rvars, bvars, gvars, xvars>>
  \/ EnterElement /\ UNCHANGED <<rvars, bvars, gvars, xvars>>
  \/ \E splice \in Splices : VisitorEnter(splice) /\ UNCHANGED <<rvars, bvars, gvars, xvars>>
  \/ FirstChild /\ UNCHANGED <<rvars, bvars, gvars, xvars>>
  \/ NextSibling /\ UNCHANGED <<rvars, bvars, gvars, xvars>>
  \/ ExitElement /\ UNCHANGED <<rvars, bvars, gvars, xvars>>
  \/ \E splice \in BOOLEAN :
       AutolinkTextNode(splice) /\ UNCHANGED <<rvars, bvars, gvars, dvars, evars, mvars>>
  \/ AutolinkNextNamespace /\ UNCHANGED <<rvars, bvars, gvars, xvars>>
  \/ AutolinkFinished /\ UNCHANGED <<rvars, bvars, gvars, xvars>>

WalkInit == WalkInitState /\ ReplInitState /\ BuildIdle /\ GraphIdle /\ ExtraIdle

SpecWalk == WalkInit /\ [][WalkNext]_vars

(***************************************************************************)
(* Vocabulary of the statements about the walk.                            *)
(***************************************************************************)
Nodes == DOMAIN nodeName

RECURSIVE Ancestors(_)
Ancestors(n) == IF parentNode[n] = 0 THEN {} ELSE {parentNode[n]} \cup Ancestors(parentNode[n])

\* n lies anywhere beneath an element of the autolink-suppression set
AutolinkSuppressed(n) == \E a \in Ancestors(n) : nodeName[a] \in NO_CLAUSE_AUTOLINK

\* the nodes of the entries of the text-span lists
Recorded == UNION {{textNodes[i].nodes[j].node : j \in DOMAIN textNodes[i].nodes} : i \in DOMAIN textNodes}

WalkReturned == wpc \in {"walked", "done"}

InsertedBy(how) == {r.node : r \in {q \in inserted : q.by = how}}

\* C9: a text node that lies anywhere beneath an element of the
\* autolink-suppression set is never recorded in the text-span lists during
\* the walk and is never handed to autolink() by the autolink pass.
C9_SuppressedTextNeverRecorded ==
  \A n \in Nodes :
    IsText(n) /\ AutolinkSuppressed(n) => n \notin Recorded /\ n \notin Range(rewritten)

\* the autolink pass has run: it left alone a visited text of a suppressed
\* element and rewrote a text that the walk visited after it
C9_Witness ==
  /\ wpc = "done"
  /\ \E n \in Nodes, m \in Range(rewritten) :
       /\ nodeName[n] = "#text" /\ AutolinkSuppressed(n)
       /\ n \in Range(visited) /\ m \in Range(visited)
       /\ IndexOf(visited, n) < IndexOf(visited, m)

\* C10: a node inserted during the walk as a child of the current element
\* (by its enter hook or by oldids handling) or as a later sibling of the
\* current node has been visited when the walk returns.
C10_InsertedNodesVisited ==
  WalkReturned => \A r \in inserted : r.node \in Range(visited)

\* the walk returned after oldids handling inserted spans and a hook or
\* emdTextNode inserted a later sibling
C10_Witness ==
  /\ WalkReturned
  /\ InsertedBy("oldids") # {}
  /\ InsertedBy("enter-sibling") \cup InsertedBy("emd") # {}

\* the nodes of the subtree of n in document order, comments included
RECURSIVE DocumentOrder(_)
DocumentOrder(n) ==
  LET RECURSIVE Each(_)
      Each(kids) == IF kids = <<>> THEN <<>>
                    ELSE DocumentOrder(Head(kids)) \o Each(Tail(kids))
  IN  <<n>> \o Each(childNodes[n])

Precedes(a, b) == IndexOf(DocumentOrder(1), a) < IndexOf(DocumentOrder(1), b)

Clauses == {n \in Nodes : nodeName[n] = "EMU-CLAUSE"}

\* C13: the header of a clause is a heading that is a direct child of the
\* clause, with no heading child and no nested clause of the clause before it.
C13_HeaderIsFirstDirectHeading ==
  \A c \in Clauses \cap DOMAIN header :
    header[c] # 0 =>
      /\ parentNode[header[c]] = c
      /\ \A n \in Nodes :
           /\ c \in Ancestors(n)
           /\ nodeName[n] = "EMU-CLAUSE" \/ (nodeName[n] = "H1" /\ parentNode[n] = c)
           /\ n # header[c]
           => Precedes(header[c], n)

\* the nodes of the open calls of walk(): the current element and its ancestors
OpenChain == [i \in DOMAIN activations |-> activations[i].node]

\* C16: tagStack is the chain of nodes from the root to the node being
\* visited, and every call of walk() leaves it as it found it.
C16_TagStackIsAncestorChain == context.tagStack = OpenChain

\* n lies beneath an element of the emphasis-suppression set
EmdSuppressed(n) == \E a \in Ancestors(n) : nodeName[a] \in NO_EMD

ExpandedNodes == {expanded[i].node : i \in DOMAIN expanded}

\* n lies between the expanded text node of e and the resume boundary of e
BeforeBoundary(e, n) ==
  /\ Precedes(e.node, n)
  /\ e.boundary # 0 => Precedes(n, e.boundary)

\* C19: a visited text node is expanded exactly if it lies outside the
\* emphasis-suppressed elements and not between an expanded text node and
\* the resume boundary of that text node.
C19_SuppressedUntilBoundary ==
  \A n \in Range(visited) :
    nodeName[n] = "#text" =>
      (n \in ExpandedNodes <=>
         /\ ~EmdSuppressed(n)
         /\ \A i \in DOMAIN expanded : expanded[i].node # n => ~BeforeBoundary(expanded[i], n))

OpenElements == Range(OpenChain)

\* while an element of a suppression set is open its flag is true, and no
\* text node inside a NO_EMD element is expanded
FlagsCoverOpenElements ==
  /\ (\E e \in OpenElements : nodeName[e] \in NO_CLAUSE_AUTOLINK) => context.inNoAutolink
  /\ (\E e \in OpenElements : nodeName[e] \in NO_EMD) => context.inNoEmd
  /\ \A n \in ExpandedNodes : ~EmdSuppressed(n)

\* the call on an element returns: a flag that the call did not set is as
\* it was, and the no-autolink flag is as it was when the call began
FlagsRestoredOnExit ==
  wpc = "exit" /\ wpc' # "exit" =>
    /\ ~Last(activations).changedInNoAutolink => context'.inNoAutolink = context.inNoAutolink
    /\ ~Last(activations).changedInNoEmd => context'.inNoEmd = context.inNoEmd
    /\ context'.inNoAutolink = Last(entryFlags).inNoAutolink

\* C20: a suppression flag set on entering an element is cleared only by the
\* call that set it: the flag is true while an element of its set is open, a
\* nested element of the same set leaves it alone on exit, and after the
\* setting element is left the no-autolink flag is as it was before.
C20_FlagsClearedBySetter == []FlagsCoverOpenElements /\ [][FlagsRestoredOnExit]_vars

\* the walk is back in an element of both suppression sets, after a nested
\* element of both sets was left
C20_Witness ==
  /\ wpc = "nextSibling"
  /\ nodeName[currentNode] \in NO_EMD \cap NO_CLAUSE_AUTOLINK
  /\ nodeName[parentNode[currentNode]] \in NO_EMD \cap NO_CLAUSE_AUTOLINK
  /\ Last(activations).node = parentNode[currentNode]
  /\ Last(activations).changedInNoEmd /\ Last(activations).changedInNoAutolink

(***************************************************************************)
(* buildReferenceGraph() (lines 553-583).  It goes over the Xref objects   *)
(* and the NonTerminal objects that the walk collected and that build()    *)
(* linked; each has the biblio entry its build() found, or none.  An id is *)
(* a pair: <<"_ref_", n>> is the string '_ref_n'.                          *)
(***************************************************************************)
\* the entries that a reference can have found: a clause and a production of
\* this document, a term of this document that has no id of its own and
\* refers to the clause, and an entry of the namespace 'global'
EntryTable ==
  [clause     |-> [namespace |-> "ns", id |-> <<"sec", 1>>, refId |-> <<>>],
   term       |-> [namespace |-> "ns", id |-> <<>>, refId |-> <<"sec", 1>>],
   production |-> [namespace |-> "ns", id |-> <<"prod", 1>>, refId |-> <<>>],
   global     |-> [namespace |-> "global", id |-> <<"sec", 2>>, refId |-> <<>>]]

EntryNames == DOMAIN EntryTable

\* this.spec.biblio.byId
BiblioById(id) == CHOOSE e \in EntryNames : EntryTable[e].id = id

\* the ids an author may have written on a node of the document
AuthorIds == {<<"a", 1>>, <<"_ref_", 0>>}

XrefObjects ==
  [id : {<<>>} \cup AuthorIds, entry : {"none", "clause", "term", "global"}]

NonTerminalObjects ==
  [attr : {<<>>} \cup AuthorIds, entry : {"none", "production", "global"},
   inProduction : BOOLEAN]

\* the ids that the author wrote on the referring nodes
WrittenIds(xs, ns) ==
  {xs[i].id : i \in {j \in DOMAIN xs : xs[j].id # <<>>}}
    \cup {ns[i].attr : i \in {j \in DOMAIN ns : ns[j].attr # <<>>}}

WrittenCount(xs, ns) ==
  Cardinality({j \in DOMAIN xs : xs[j].id # <<>>})
    + Cardinality({j \in DOMAIN ns : ns[j].attr # <<>>})

\* the state in which build() calls buildReferenceGraph: the references are
\* linked, and no two nodes of the document have the same id
GraphInitState ==
  /\ \E a \in 0..MaxRefs : \E b \in 0..(MaxRefs - a) :
     \E xs \in [1..a -> XrefObjects], ns \in [1..b -> NonTerminalObjects],
        others \in SUBSET AuthorIds :
       /\ Cardinality(WrittenIds(xs, ns)) = WrittenCount(xs, ns)
       /\ others \cap WrittenIds(xs, ns) = {}
       /\ _xrefs = [i \in DOMAIN xs |->
                      [id |-> xs[i].id, attr |-> xs[i].id, entry |-> xs[i].entry,
                       attr0 |-> xs[i].id]]
       /\ _ntRefs = [i \in DOMAIN ns |->
                       [attr |-> ns[i].attr, entry |-> ns[i].entry,
                        inProduction |-> ns[i].inProduction, attr0 |-> ns[i].attr]]
       /\ otherIds = others
  /\ referencingIds = [e \in EntryNames |-> <<>>]
  /\ counter = 0
  /\ gpc = "xrefs"
  /\ gi = 1
  /\ generated = <<>>

\* lines 556-557 and 573-574: no entry, or an entry of the namespace 'global'
NoBackReference(entry) == entry = "none" \/ EntryTable[entry].namespace = "global"

\* lines 559-561
Referenced(entry) ==
  IF EntryTable[entry].id = <<>> /\ EntryTable[entry].refId # <<>>
    THEN BiblioById(EntryTable[entry].refId)
    ELSE entry

\* `_ref_${counter++}`
NextRefId == <<"_ref_", counter>>

\* lines 555-570: the callback of _xrefs.forEach for the xref at gi
GraphXref ==
  /\ gpc = "xrefs"
  /\ gi <= Len(_xrefs)
  /\ LET xref == _xrefs[gi]
     IN  IF NoBackReference(xref.entry)
           THEN UNCHANGED <<_xrefs, referencingIds, counter, generated>>
           ELSE LET entry == Referenced(xref.entry)
                    id == IF xref.id = <<>> THEN NextRefId ELSE xref.id
                IN  /\ IF xref.id = <<>>
                         THEN /\ counter' = counter + 1
                              /\ _xrefs' = [_xrefs EXCEPT ![gi].id = id, ![gi].attr = id]
                              /\ generated' = Append(generated,
                                                     [list |-> "xrefs", index |-> gi, id |-> id])
                         ELSE UNCHANGED <<counter, _xrefs, generated>>
                    /\ referencingIds' = [referencingIds EXCEPT ![entry] = Append(@, id)]
  /\ gi' = gi + 1
  /\ UNCHANGED <<_ntRefs, otherIds, gpc>>

\* line 570: the first forEach is over
GraphXrefsDone ==
  /\ gpc = "xrefs"
  /\ gi > Len(_xrefs)
  /\ gpc' = "ntRefs"
  /\ gi' = 1
  /\ UNCHANGED <<_xrefs, _ntRefs, otherIds, referencingIds, counter, generated>>

\* lines 572-582: the callback of _ntRefs.forEach for the non-terminal at gi
GraphNtRef ==
  /\ gpc = "ntRefs"
  /\ gi <= Len(_ntRefs)
  /\ LET prod == _ntRefs[gi]
     IN  IF NoBackReference(prod.entry) \/ prod.inProduction
           THEN UNCHANGED <<_ntRefs, referencingIds, counter, generated>>
           ELSE /\ counter' = counter + 1
                /\ _ntRefs' = [_ntRefs EXCEPT ![gi].attr = NextRefId]
                /\ referencingIds' = [referencingIds EXCEPT ![prod.entry] = Append(@, NextRefId)]
                /\ generated' = Append(generated,
                                       [list |-> "ntRefs", index |-> gi, id |-> NextRefId])
  /\ gi' = gi + 1
  /\ UNCHANGED <<_xrefs, otherIds, gpc>>

\* line 583
GraphReturns ==
  /\ gpc = "ntRefs"
  /\ gi > Len(_ntRefs)
  /\ gpc' = "done"
  /\ UNCHANGED <<_xrefs, _ntRefs, otherIds, referencingIds, counter, gi, generated>>

GraphNext ==
  \/ GraphXref /\ UNCHANGED <<rvars, bvars, wvars, xvars>>
  \/ GraphXrefsDone /\ UNCHANGED <<rvars, bvars, wvars, xvars>>
  \/ GraphNtRef /\ UNCHANGED <<rvars, bvars, wvars, xvars>>
  \/ GraphReturns /\ UNCHANGED <<rvars, bvars, wvars, xvars>>

GraphInit == GraphInitState /\ ReplInitState /\ BuildIdle /\ WalkIdle /\ ExtraIdle

SpecGraph == GraphInit /\ [][GraphNext]_vars

(***************************************************************************)
(* Vocabulary of the statements about the reference graph.                 *)
(***************************************************************************)
\* the referring nodes: the list they are in and their position
ReferringNodes ==
  {<<"xrefs", i>> : i \in DOMAIN _xrefs} \cup {<<"ntRefs", i>> : i \in DOMAIN _ntRefs}

Referring(r) == IF r[1] = "xrefs" THEN _xrefs[r[2]] ELSE _ntRefs[r[2]]

\* the callback has run for the referring node
Processed(r) ==
  \/ gpc = "done"
  \/ r[1] = "xrefs" /\ (gpc = "ntRefs" \/ r[2] < gi)
  \/ r[1] = "ntRefs" /\ gpc = "ntRefs" /\ r[2] < gi

\* the referring node is one that buildReferenceGraph records at its entry
GetsBackReference(r) ==
  /\ ~NoBackReference(Referring(r).entry)
  /\ r[1] = "ntRefs" => ~Referring(r).inProduction

BackReferencesOf(r) == referencingIds[Referenced(Referring(r).entry)]

\* C11: every generated '_ref_N' id differs from every other generated id
\* and from every id that another node of the document has.
C11_GeneratedIdsUnique ==
  \A k \in DOMAIN generated :
    LET g == generated[k]
    IN  /\ \A j \in DOMAIN generated : j # k => generated[j].id # g.id
        /\ g.id \notin otherIds
        /\ \A r \in ReferringNodes : r # <<g.list, g.index>> => Referring(r).attr # g.id

\* C12: a recorded referring node that had an id keeps it, and that id is the
\* one recorded as the back-reference; only a node without id gets a
\* generated one.
C12_ExistingIdKept ==
  \A r \in ReferringNodes :
    Processed(r) /\ GetsBackReference(r) /\ Referring(r).attr0 # <<>> =>
      /\ Referring(r).attr = Referring(r).attr0
      /\ \E k \in DOMAIN BackReferencesOf(r) : BackReferencesOf(r)[k] = Referring(r).attr0

(***************************************************************************)
(* More vocabulary of the statements about the walk.                       *)
(***************************************************************************)
\* the entries of the text-span lists about node n, as pairs of positions
EntriesOf(tn, n) ==
  {ij \in {<<i, j>> : i \in DOMAIN tn, j \in 1..MaxNodes + MaxInserted + 2} :
     ij[2] \in DOMAIN tn[ij[1]].nodes /\ tn[ij[1]].nodes[ij[2]].node = n}

\* the namespace that holds at node n: the namespace attribute of the nearest
\* enclosing clause that has one, else the namespace of the document
RECURSIVE NamespaceOf(_)
NamespaceOf(n) ==
  IF n = 0 THEN SpecNamespace
  ELSE IF nodeName[n] = "EMU-CLAUSE" /\ attrs[n].namespace # <<>> THEN attrs[n].namespace
  ELSE NamespaceOf(parentNode[n])

\* the call of walk() that this step makes, 0 when the step is no call
CalledOn == IF visited' # visited THEN Last(visited') ELSE 0

\* a step that calls walk() on a text node appends one entry for it, to the
\* list of the namespace that holds there, with the flag and the id of the
\* context, when the node is not empty and not suppressed; every other step
\* leaves the lists alone
TextNodeAppended ==
  LET n == CalledOn
  IN IF n # 0 /\ nodeName[n] = "#text" /\ ~AutolinkSuppressed(n)
     THEN /\ EntriesOf(textNodes, n) = {}
          /\ Cardinality(EntriesOf(textNodes', n)) = 1
          /\ \A ij \in EntriesOf(textNodes', n) :
               /\ textNodes'[ij[1]].namespace = NamespaceOf(parentNode[n])
               /\ ij[2] = Len(textNodes'[ij[1]].nodes)
               /\ textNodes'[ij[1]].nodes[ij[2]].inAlg = context.inAlg
               /\ textNodes'[ij[1]].nodes[ij[2]].currentId = context.currentId
          /\ \A m \in Nodes \ {n} : EntriesOf(textNodes', m) = EntriesOf(textNodes, m)
     ELSE textNodes' = textNodes

\* no node has two entries, no namespace two lists, and what is recorded is
\* a visited text node that is not empty
TextNodesWellFormed ==
  /\ \A n \in Nodes : Cardinality(EntriesOf(textNodes, n)) <= 1
  /\ \A i, j \in DOMAIN textNodes : textNodes[i].namespace = textNodes[j].namespace => i = j
  /\ \A n \in Recorded : nodeName[n] = "#text" /\ n \in Range(visited)
  /\ \A n \in Range(visited) :
       (nodeName[n] = "#text" /\ ~AutolinkSuppressed(n)) => n \in Recorded

(***************************************************************************)
(* C22.  During the walk every visited text node that is not white space   *)
(* only and not inside an autolink-suppressed element is appended exactly  *)
(* once to the text-span list of the namespace of the innermost open       *)
(* clause (of the document when no clause is open), with the inAlg flag    *)
(* and the currentId of the context at that moment; a text node of white   *)
(* space only is never appended.                                           *)
(***************************************************************************)
C22_TextNodesRecordedOnce == []TextNodesWellFormed /\ [][TextNodeAppended]_vars

\* text inside an algorithm inside a clause that declares a namespace
C22_Witness ==
  \E i \in DOMAIN textNodes :
    /\ textNodes[i].namespace # SpecNamespace
    /\ \E j \in DOMAIN textNodes[i].nodes :
         /\ textNodes[i].nodes[j].inAlg
         /\ textNodes[i].nodes[j].currentId # <<>>
         /\ textNodes[i].nodes[j].clause # 0

\* the id of the nearest element, n itself or an ancestor, that has an id
\* attribute; <<>> for null
RECURSIVE NearestId(_)
NearestId(n) ==
  IF n = 0 THEN <<>>
  ELSE IF attrs[n].id # <<>> THEN attrs[n].id
  ELSE NearestId(parentNode[n])

\* the element whose id is current where the walk stands: before a call and
\* after its return the parent of the node, inside a call the element itself
IdScope ==
  CASE wpc \in {"call", "nextSibling"} -> parentNode[currentNode]
    [] wpc \in {"enter", "firstChild"} -> Last(activations).node
    [] wpc = "exit" -> currentNode
    [] OTHER -> 0

(***************************************************************************)
(* C23.  At every node visited, context.currentId is the id of the nearest *)
(* enclosing element, the node itself or an ancestor, that has an id       *)
(* attribute, or null when there is none; when an element is left,         *)
(* currentId has again the value it had before the element was entered.    *)
(***************************************************************************)
C23_CurrentIdIsNearestId ==
  /\ context.currentId = NearestId(IdScope)
  /\ \A i \in DOMAIN activations :
       activations[i].parentId = NearestId(parentNode[activations[i].node])

\* the walk has left a clause that lies within another clause: the id of the
\* outer clause is current again
C23_Witness ==
  /\ wpc = "nextSibling"
  /\ attrs[currentNode].id # <<>>
  /\ attrs[parentNode[currentNode]].id # <<>>
  /\ attrs[currentNode].id # attrs[parentNode[currentNode]].id
  /\ context.currentId = attrs[parentNode[currentNode]].id

\* the elements whose enter hook was called and whose exit hook was not, in
\* the order of the calls; <<0>> when an exit hook was called on an element
\* that was not the one entered last
RECURSIVE OpenHooks(_, _)
OpenHooks(log, stack) ==
  IF log = <<>> THEN stack
  ELSE IF Head(log).hook = "enter" THEN OpenHooks(Tail(log), Append(stack, Head(log).element))
  ELSE IF stack # <<>> /\ Last(stack) = Head(log).element
       THEN OpenHooks(Tail(log), SubSeq(stack, 1, Len(stack) - 1))
  ELSE <<0>>

HookCalls(hook, e) == {i \in DOMAIN hookLog : hookLog[i].hook = hook /\ hookLog[i].element = e}

HasVisitor(n) == nodeName[n] \in VisitorElements

\* the elements with a builder among the open calls of walk(), outermost
\* first; the innermost call has not reached its enter hook while wpc = "enter"
EnteredChain ==
  SelectSeq(IF wpc = "enter" THEN SubSeq(OpenChain, 1, Len(OpenChain) - 1) ELSE OpenChain,
            HasVisitor)

HooksNested ==
  /\ OpenHooks(hookLog, <<>>) = EnteredChain
  /\ \A i \in DOMAIN hookLog : hookLog[i].node = hookLog[i].element
  /\ \A e \in Nodes : Cardinality(HookCalls("enter", e)) <= 1
                      /\ Cardinality(HookCalls("exit", e)) <= 1
  /\ WalkReturned =>
       \A e \in Range(visited) : HasVisitor(e) =>
         Cardinality(HookCalls("enter", e)) = 1 /\ Cardinality(HookCalls("exit", e)) = 1

Descendants(e) == {d \in Nodes : e \in Ancestors(d)}

\* a call of enter comes before the visit of every descendant; a call of exit
\* comes after every descendant that the walker shows was visited and every
\* descendant with a builder was entered and exited
HookAtBoundary ==
  hookLog' # hookLog =>
    LET call == Last(hookLog')
        e == call.element
    IN IF call.hook = "enter"
       THEN Descendants(e) \cap Range(visited) = {}
       ELSE /\ HookCalls("enter", e) # {}
            /\ \A d \in Descendants(e) :
                 /\ Shown(d) => d \in Range(visited)
                 /\ HasVisitor(d) => HookCalls("enter", d) # {} /\ HookCalls("exit", d) # {}

(***************************************************************************)
(* C24.  For every element with a registered builder the walk calls enter  *)
(* once, before any descendant is visited, and exit once, after every      *)
(* descendant was entered and exited, with context.node the element at     *)
(* both calls; the calls of enter and exit are properly nested.            *)
(***************************************************************************)
C24_HooksProperlyNested == []HooksNested /\ [][HookAtBoundary]_vars

\* a clause within a clause, both left, the inner one first
C24_Witness ==
  /\ Len(hookLog) >= 4
  /\ hookLog[1].hook = "enter" /\ hookLog[2].hook = "enter"
  /\ hookLog[1].element = parentNode[hookLog[2].element]
  /\ childNodes[hookLog[2].element] # <<>>
  /\ hookLog[3] = [hook |-> "exit", element |-> hookLog[2].element, node |-> hookLog[2].element]
  /\ hookLog[4] = [hook |-> "exit", element |-> hookLog[1].element, node |-> hookLog[1].element]

\* the nodes of the text-span lists, list after list
RECURSIVE SpansInOrder(_)
SpansInOrder(tn) ==
  IF tn = <<>> THEN <<>>
  ELSE [j \in DOMAIN Head(tn).nodes |-> Head(tn).nodes[j].node] \o SpansInOrder(Tail(tn))

NoDuplicates(seq) == \A i, j \in DOMAIN seq : seq[i] = seq[j] => i = j

\* what the pass has processed is a prefix of the recorded spans in the order
\* of the lists, and all of them once it has returned; a replacer was made
\* once for each namespace reached, none for a namespace twice; nothing the
\* pass spliced in is processed or recorded
AutolinkOncePerSpan ==
  /\ IsPrefix(rewritten, SpansInOrder(textNodes))
  /\ NoDuplicates(rewritten)
  /\ wpc = "done" => rewritten = SpansInOrder(textNodes)
  /\ NoDuplicates(compiled)
  /\ IsPrefix(compiled, [i \in DOMAIN textNodes |-> textNodes[i].namespace])
  /\ wpc = "done" => Len(compiled) = Len(textNodes)
  /\ \A k \in DOMAIN rewritten :
       \E ij \in EntriesOf(textNodes, rewritten[k]) : ij[1] \in DOMAIN compiled
  /\ linkedIn \cap (Range(rewritten) \cup Recorded) = {}

\* the pass leaves the text-span lists as the walk left them
ListsNotExtended == wpc = "walked" => textNodes' = textNodes

(***************************************************************************)
(* C27.  The autolink pass processes each text span recorded during the    *)
(* traversal exactly once, with the replacer made once for the namespace   *)
(* of the span, and never processes a node that the pass itself spliced    *)
(* in: the text-span lists are not extended while the pass runs.           *)
(***************************************************************************)
C27_AutolinkOncePerSpan == []AutolinkOncePerSpan /\ [][ListsNotExtended]_vars

\* two namespaces with a span each, and a node spliced in by the pass
C27_Witness ==
  /\ wpc = "done"
  /\ Len(textNodes) = 2
  /\ Len(compiled) = 2
  /\ linkedIn # {}

(***************************************************************************)
(* wrapWarn (lines 195-297): the wrapper around opts.warn that turns a     *)
(* Warning into an EcmarkupError.  An optional value is <<>> when it is    *)
(* undefined and <<v>> otherwise.                                          *)
(***************************************************************************)
importPath == "import.html"

\* the nodes that warnings are about: nodeType 1 is an element, 3 a text node;
\* nodeLocation is what the parser recorded for the node, if anything;
\* startTagEnd is where the start tag ends, relative to its start, and attr is
\* where the value of the attribute starts
WarnNodes ==
  << [nodeType |-> 1, tagName |-> "EMU-CLAUSE", inImport |-> FALSE,
      nodeLocation |-> <<[line |-> 3, col |-> 5, startTag |-> [line |-> 3, col |-> 5],
                          startTagEnd |-> [line |-> 1, column |-> 12],
                          attr |-> [line |-> 3, column |-> 9]]>>],
     [nodeType |-> 3, tagName |-> "", inImport |-> TRUE,
      nodeLocation |-> <<[line |-> 2, col |-> 4, startTag |-> [line |-> 0, col |-> 0],
                          startTagEnd |-> [line |-> 0, column |-> 0],
                          attr |-> [line |-> 0, column |-> 0]]>>],
     [nodeType |-> 1, tagName |-> "EMU-ALG", inImport |-> TRUE,
      nodeLocation |-> <<[line |-> 7, col |-> 1, startTag |-> [line |-> 7, col |-> 1],
                          startTagEnd |-> [line |-> 2, column |-> 3],
                          attr |-> [line |-> 8, column |-> 2]]>>],
     [nodeType |-> 1, tagName |-> "SPAN", inImport |-> FALSE, nodeLocation |-> <<>>],
     [nodeType |-> 3, tagName |-> "", inImport |-> FALSE, nodeLocation |-> <<>>] >>

\* Spec.locate (lines 510-551): the location of the node in the root document
\* or in the import that holds it, with the text it refers to
locate(node) ==
  LET n == WarnNodes[node]
  IN IF n.nodeLocation = <<>> THEN <<>>
     ELSE IF ~n.inImport
          THEN <<[file |-> <<>>, source |-> sourceText, loc |-> n.nodeLocation[1]]>>
          ELSE <<[file |-> <<importPath>>, source |-> importSource, loc |-> n.nodeLocation[1]]>>

\* the Warning objects the program hands to this.warn
Warning(type, node, attr, relLine, relColumn, line, column, file, src) ==
  [type |-> type, node |-> node, attr |-> attr, nodeRelativeLine |-> relLine,
   nodeRelativeColumn |-> relColumn, line |-> line, column |-> column, file |-> file,
   source |-> src, ruleId |-> "rule", message |-> "message"]

Warnings ==
  {Warning("global", 0, "", 0, 0, 0, 0, <<>>, <<>>)}
    \cup {Warning("raw", 0, "", 0, 0, 4, 2, <<>>, <<>>),
          Warning("raw", 0, "", 0, 0, 4, 2, <<importPath>>, <<importSource>>)}
    \cup {Warning("node", n, "", 0, 0, 0, 0, <<>>, <<>>) : n \in DOMAIN WarnNodes}
    \cup {Warning("attr", n, "id", 0, 0, 0, 0, <<>>, <<>>) :
            n \in {m \in DOMAIN WarnNodes : WarnNodes[m].nodeType = 1}}
    \cup {Warning("contents", n, "", l, c, 0, 0, <<>>, <<>>) :
            n \in DOMAIN WarnNodes, l \in 1..2, c \in {1, 3}}

\* tagName.toLowerCase() on the tag names of the nodes
toLowerCase ==
  ("EMU-CLAUSE" :> "emu-clause") @@ ("EMU-ALG" :> "emu-alg") @@ ("SPAN" :> "span")

nodeType(e) ==
  IF e.type \in {"global", "raw"} THEN "html"
  ELSE IF WarnNodes[e.node].nodeType = 3 THEN "text"
  ELSE toLowerCase[WarnNodes[e.node].tagName]

\* line and column of a located warning, by type (lines 222, 230, 240, 253-254, 266-277)
linecol(e, l) ==
  LET isText == WarnNodes[e.node].nodeType = 3
      tagEnd == l.startTagEnd
  IN CASE e.type = "node" ->
            IF isText THEN [line |-> l.line, column |-> l.col]
            ELSE [line |-> l.startTag.line, column |-> l.startTag.col]
       [] e.type = "attr" -> [line |-> l.attr.line, column |-> l.attr.column]
       [] e.type = "contents" ->
            IF isText
            THEN [line |-> l.line + e.nodeRelativeLine - 1,
                  column |-> IF e.nodeRelativeLine = 1
                             THEN l.col + e.nodeRelativeColumn - 1
                             ELSE e.nodeRelativeColumn]
            ELSE [line |-> l.startTag.line + tagEnd.line + e.nodeRelativeLine - 2,
                  column |-> IF e.nodeRelativeLine = 1
                             THEN IF tagEnd.line = 1
                                  THEN l.startTag.col + tagEnd.column + e.nodeRelativeColumn - 2
                                  ELSE tagEnd.column + e.nodeRelativeColumn - 1
                             ELSE e.nodeRelativeColumn]

\* one call of the wrapper with the closure variable holding src: the error
\* handed to the sink and the value the closure variable is left with
wrapWarn(e, src) ==
  LET found == IF e.type \in {"global", "raw"} THEN <<>> ELSE locate(e.node)
      file == IF e.type = "raw" THEN e.file
              ELSE IF found # <<>> THEN found[1].file ELSE <<>>
      after == IF e.type = "raw"
               THEN IF e.file # <<>> THEN e.source[1] ELSE src
               ELSE IF found # <<>> THEN found[1].source ELSE src
      lc == IF found # <<>> THEN linecol(e, found[1].loc) ELSE [line |-> 0, column |-> 0]
  IN [error |->
        [message |-> e.message, ruleId |-> e.ruleId,
         source |-> IF e.type = "global" THEN <<>> ELSE <<after>>,
         file |-> file,
         nodeType |-> nodeType(e),
         line |-> IF e.type = "raw" THEN <<e.line>>
                  ELSE IF found # <<>> THEN <<lc.line>> ELSE <<>>,
         column |-> IF e.type = "raw" THEN <<e.column>>
                    ELSE IF found # <<>> THEN <<lc.column>> ELSE <<>>],
      source |-> after]

\* this.warn(e)
Warn(e) ==
  /\ Len(emitted) < MaxWarnings
  /\ sink' = Append(sink, wrapWarn(e, source).error)
  /\ source' = wrapWarn(e, source).source
  /\ emitted' = Append(emitted, e)

WarnNext ==
  \E e \in Warnings :
    Warn(e) /\ UNCHANGED <<rvars, bvars, wvars, gvars, evars, lvars, mvars>>

WarnInit ==
  /\ WarnIdle /\ ReplInitState /\ BuildIdle /\ WalkIdle /\ GraphIdle
  /\ ExportIdle /\ AutolinkIdle /\ GrammarIdle

SpecWarn == WarnInit /\ [][WarnNext]_vars

(***************************************************************************)
(* C21.  The error the wrapper hands to the sink for a warning depends on  *)
(* that warning and the document only: it is the error the wrapper gives   *)
(* for the same warning when nothing was reported before it.               *)
(***************************************************************************)
C21_DiagnosticIndependentOfHistory ==
  \A i \in DOMAIN sink : sink[i] = wrapWarn(emitted[i], sourceText).error

(***************************************************************************)
(* The location of the document: the constructor (lines 369-402) and       *)
(* exportBiblio (lines 722-737).  A property that an object does not have  *)
(* is "absent"; "undefined" is a property whose value is undefined.        *)
(***************************************************************************)
LocationValues == {"absent", "undefined", "", "https://a.example/", "https://b.example/"}

\* !value
Falsy(value) == value \in {"absent", "undefined", ""}

\* Object.assign(target, src), as far as the property location goes
Assign(target, src) == IF src = "absent" THEN target ELSE src

\* the ids an exported Biblio may hold
ExportIds == {"sec-a", "sec-b", "step-c"}

ExportInitState ==
  /\ optLocation \in LocationValues
  /\ metaLocation \in LocationValues \ {"undefined"}
  /\ location = "absent"
  /\ entries \in SUBSET ExportIds
  /\ epc = "new"
  /\ returned = <<>>
  /\ exportWarnings = <<>>

\* lines 396-398
DefaultLocation(value) == IF Falsy(value) THEN "<no location>" ELSE value

\* lines 343, 369-370, 396-398: this.opts = {}; processMetadata();
\* Object.assign(this.opts, opts); the default
Construct ==
  /\ epc = "new"
  /\ location' = DefaultLocation(Assign(Assign("absent", metaLocation), optLocation))
  /\ epc' = "constructed"
  /\ UNCHANGED <<optLocation, metaLocation, entries, returned, exportWarnings>>

NoLocationWarning == [type |-> "global", ruleId |-> "no-location"]

\* lines 722-737; a returned object is a function from its keys, and
\* this.biblio.toJSON() is the set of the ids
exportBiblio ==
  /\ epc = "constructed"
  /\ Len(returned) < MaxExports
  /\ IF Falsy(location)
       THEN /\ exportWarnings' = Append(exportWarnings, NoLocationWarning)
            /\ returned' = Append(returned, <<>>)
       ELSE /\ exportWarnings' = exportWarnings
            /\ returned' = Append(returned, (location :> entries))
  /\ UNCHANGED <<optLocation, metaLocation, location, entries, epc>>

ExportNext ==
  \/ Construct /\ UNCHANGED <<rvars, bvars, wvars, gvars, dvars, lvars, mvars>>
  \/ exportBiblio /\ UNCHANGED <<rvars, bvars, wvars, gvars, dvars, lvars, mvars>>

ExportInit ==
  /\ ExportInitState /\ ReplInitState /\ BuildIdle /\ WalkIdle /\ GraphIdle
  /\ WarnIdle /\ AutolinkIdle /\ GrammarIdle

SpecExport == ExportInit /\ [][ExportNext]_vars

\* the document was compiled with a location, by option or by metadata
LocationSpecified == ~Falsy(Assign(Assign("absent", metaLocation), optLocation))

(***************************************************************************)
(* C26.  exportBiblio returns a snapshot with exactly one key, the         *)
(* location of the document; when the document was compiled with no        *)
(* location, neither by option nor by metadata, it emits the global        *)
(* 'no-location' diagnostic and returns an empty snapshot.                 *)
(***************************************************************************)
C26_SnapshotKeyedByLocation ==
  \A i \in DOMAIN returned :
    IF LocationSpecified
    THEN DOMAIN returned[i] = {location} /\ exportWarnings = <<>>
    ELSE /\ returned[i] = <<>>
         /\ Len(exportWarnings) = Len(returned)
         /\ \A j \in DOMAIN exportWarnings : exportWarnings[j] = NoLocationWarning

(***************************************************************************)
(* Grammar.enter (lines 11-71).  A text is a sequence of characters; the   *)
(* characters of the model are "<", "/", ">", the word characters "p" and  *)
(* "x", and "&gt;", which stands for the four characters of the entity.    *)
(* Of the names of endTagRe the model has p.  Offsets count from 0, as in  *)
(* the code.                                                               *)
(***************************************************************************)
SourceChars == {"<", "/", ">", "p", "x"}

\* \w
WordChar(c) == c \in {"p", "x"}

\* the texts of at most n characters over the alphabet
RECURSIVE Texts(_, _)
Texts(alphabet, n) ==
  IF n = 0 THEN {<<>>}
  ELSE LET shorter == Texts(alphabet, n - 1)
       IN shorter \cup {Append(t, c) : t \in shorter, c \in alphabet}

\* String.prototype.slice(start, end) with 0 <= start, end
slice(text, start, end) == SubSeq(text, start + 1, end)

\* endTagRe matches at offset i of the text: "<", an optional "/", the name,
\* a word boundary, then any characters but ">" up to a ">"
MatchesAt(text, i) ==
  LET name == IF i + 2 <= Len(text) /\ text[i + 2] = "/" THEN i + 3 ELSE i + 2
  IN /\ i + 1 <= Len(text) /\ text[i + 1] = "<"
     /\ name + 1 <= Len(text)
     /\ text[name] = "p"
     /\ ~WordChar(text[name + 1])
     /\ \E k \in (name + 1)..Len(text) : text[k] = ">"

\* RegExp.prototype.exec with lastIndex: the index of the first match at or
\* after lastIndex, -1 for null
exec(text, lastIndex) ==
  LET found == {i \in lastIndex..Len(text) : MatchesAt(text, i)}
  IN IF found = {} THEN -1 ELSE CHOOSE i \in found : \A k \in found : i <= k

\* innerHTML.replace(/&gt;/g, '>')
replaceGt(text) == [i \in DOMAIN text |-> IF text[i] = "&gt;" THEN ">" ELSE text[i]]

\* the element as the walk reaches it: parsed with both tags, parsed without
\* an end tag, or without a location; with or without a result of the lint phase
GrammarInitState ==
  /\ \/ \E text \in Texts(SourceChars, MaxSource), kind \in {"tags", "open"},
           a \in 0..MaxSource, b \in 0..MaxSource :
          /\ a <= b /\ b <= Len(text)
          /\ kind = "open" => a = b
          /\ gsource = text
          /\ glocation = [kind |-> kind, start |-> a, end |-> b]
          /\ innerHTML = slice(text, a, b)
     \/ \E inner \in Texts(SourceChars \cup {"&gt;"}, MaxSource - 1) :
          /\ gsource = <<>>
          /\ glocation = [kind |-> "none", start |-> 0, end |-> 0]
          /\ innerHTML = inner
  /\ grammarkdownOut \in {[has |-> FALSE, out |-> <<>>], [has |-> TRUE, out |-> <<"p", "x">>]}
  /\ mpc = "call"
  /\ converted = <<>>
  /\ raw = <<>>

\* lines 27-49: the text read for the element
RawContent ==
  CASE glocation.kind = "tags" -> slice(gsource, glocation.start, glocation.end)
    [] glocation.kind = "open" ->
         LET match == exec(gsource, glocation.end)
         IN slice(gsource, glocation.end, IF match # -1 THEN match ELSE Len(gsource))
    [] OTHER -> replaceGt(innerHTML)

\* mutant: the content is never looked at again
possiblyMalformed_Never(kind) == FALSE

\* lines 23 and 43
possiblyMalformed(kind) == kind # "open"

\* lines 51-58
Content ==
  LET match == exec(RawContent, 0)
  IN IF possiblyMalformed(glocation.kind) /\ match # -1
     THEN slice(RawContent, 0, match)
     ELSE RawContent

\* GrammarFile.convert(content, options): the production markup for the content
convert(content) == <<"<emu-production>">> \o content

GrammarEnter ==
  /\ mpc = "call"
  /\ IF grammarkdownOut.has
       THEN /\ innerHTML' = grammarkdownOut.out
            /\ converted' = converted
            /\ raw' = raw
       ELSE /\ innerHTML' = convert(Content)
            /\ converted' = Append(converted, Content)
            /\ raw' = RawContent
  /\ mpc' = "returned"
  /\ UNCHANGED <<gsource, glocation, grammarkdownOut>>

GrammarNext == GrammarEnter /\ UNCHANGED <<rvars, bvars, wvars, gvars, dvars, evars, lvars>>

GrammarInit ==
  /\ GrammarInitState /\ ReplInitState /\ BuildIdle /\ WalkIdle /\ GraphIdle
  /\ WarnIdle /\ ExportIdle /\ AutolinkIdle

SpecGrammar == GrammarInit /\ [][GrammarNext]_vars

\* the text holds a start or end tag of the recovery set
HasRecoveryTag(text) == \E i \in 0..Len(text) : MatchesAt(text, i)

(***************************************************************************)
(* C28.  For a grammar element that the lint phase did not convert, the    *)
(* content handed to the grammar engine holds no start or end tag of the   *)
(* recovery set: it is the text read for the element up to the first such  *)
(* tag, whether or not the parser found the end tag.  For an element that  *)
(* carries a result of the lint phase the engine is not called, and the    *)
(* stored result becomes the content of the element.                       *)
(***************************************************************************)
C28_ContentCutAtRecoveryTag ==
  mpc = "returned" =>
    IF grammarkdownOut.has
    THEN converted = <<>> /\ innerHTML = grammarkdownOut.out
    ELSE /\ Len(converted) = 1
         /\ ~HasRecoveryTag(converted[1])
         /\ \E n \in 0..Len(raw) :
              /\ converted[1] = slice(raw, 0, n)
              /\ n < Len(raw) => MatchesAt(raw, n)
         /\ innerHTML = convert(converted[1])

\* both tags were found, the text between them holds a recovery tag after
\* its first character, and the engine got what precedes the tag
C28_Witness ==
  /\ mpc = "returned"
  /\ ~grammarkdownOut.has
  /\ glocation.kind = "tags"
  /\ HasRecoveryTag(raw)
  /\ converted # <<>>
  /\ converted[1] # <<>>
  /\ Len(converted[1]) < Len(raw)

=============================================================================
